---------------------------- MODULE Spec2Model ----------------------------
(***************************************************************************)
(* Model of the ARC turn-processing graph (arc/brain/graph.py) and of the  *)
(* memory store it commits to (arc/brain/memory.py).                       *)
(*                                                                         *)
(* One behaviour of Spec is one turn: graph.invoke on a Turn State that    *)
(* holds only the inputs, against a store left behind by earlier turns.    *)
(* Confidence is kept in tenths (0.5 is 5).  Python's None and a key that  *)
(* is not in the state dict are the strings None and Absent; needs_memory  *)
(* is only ever tested for truth, so its missing key is FALSE.             *)
(*                                                                         *)
(* SpecProfile and SpecEpisodic are the Memory Manager called directly,    *)
(* one call at a time, on the profile and on the episodic list; SpecRace   *)
(* is two of its calls in flight at once.  SpecProviders is one execute    *)
(* call on a tool provider (arc/mcp/filesystem.py, arc/mcp/browser.py).    *)
(* SpecVoice is one command of the voice loop (arc/voice/loop.py) answered  *)
(* by the callback of cli.py.  SpecStore and SpecFrame are the Memory      *)
(* Manager on profiles written by earlier versions and carrying            *)
(* preferences; SpecContext is the context_loader node over longer         *)
(* histories; SpecManager is the MCP Client Manager (arc/mcp/client.py).   *)
(***************************************************************************)
EXTENDS Integers, Sequences, FiniteSets, TLC

VARIABLES
    pc,         \* the node about to run, "end", or "raised" (an exception left graph.invoke)
    state,      \* the Turn State (AgentState)
    trace,      \* history: the nodes that have run in this turn, in order
    llm_reply,  \* history: what the Reasoning Engine's backend request came to
    episodic,   \* the stored episodic list (episodic.json)
    profile,    \* the stored user profile (user_profile.json)
    torn,       \* the documents a failed write left undecodable
    now,        \* the clock, in hours
    mem_io,     \* history: how the nodes' get_memory_manager and file I/O went
    hist,       \* history: the last Memory Manager call made directly, and counts
    race,       \* two Memory Manager calls in flight: position, what each read, order
    mcp,        \* a tool provider's execute call: its input, result and side effects; or the
                \* MCP Client Manager
    voice       \* one voice command: position, what was heard, answered and spoken

vars == <<pc, state, trace, llm_reply, episodic, profile, torn, now, mem_io, hist, race, mcp,
          voice>>

None == "<None>"
Absent == "<absent>"

(***************************************************************************)
(* Bounds of the model.                                                    *)
(***************************************************************************)
MaxInitEpisodic == 1

(***************************************************************************)
(* Values of the untyped fields.                                           *)
(***************************************************************************)
Num(n) == [t |-> "num", n |-> n]
NoneConf == [t |-> "none", n |-> 0]
StrConf == [t |-> "str", n |-> 0]
AbsentConf == [t |-> "absent", n |-> 0]

Cmd(name, args) == [t |-> "dict", name |-> name, args |-> args]
NoneCmd == [t |-> "none", name |-> Absent, args |-> Absent]
StrCmd == [t |-> "str", name |-> Absent, args |-> Absent]
AbsentCmd == [t |-> "absent", name |-> Absent, args |-> Absent]
EmptyArgs == "{}"
PyTrue == "True"
PyFalse == "False"
CalcArgs == "{app_name: Calculator}"

MemDec(e, l, u) == [t |-> "dict", episodic |-> e, long_term |-> l, user_fact |-> u]
NoneMemDec == [t |-> "none", episodic |-> FALSE, long_term |-> FALSE, user_fact |-> <<>>]
AbsentMemDec == [t |-> "absent", episodic |-> FALSE, long_term |-> FALSE, user_fact |-> <<>>]

\* Python truthiness of an optional string: None, a missing key and "" are falsy.
Truthy(s) == s \notin {None, Absent, ""}

\* Python truthiness of tool_command: None and the empty mapping are falsy.
CmdTruthy(c) ==
    \/ c.t = "str"
    \/ c.t = "dict" /\ ~(c.name = Absent /\ c.args = Absent)

StartsWith(s, p) == Len(s) >= Len(p) /\ SubSeq(s, 1, Len(p)) = p

\* dict.get(key, default): the default only replaces a missing key.
Get(v, default) == IF v = Absent THEN default ELSE v

\* The Orchestrator's merge: a node's partial update overwrites the fields it names.
Merge(st, upd) == [k \in DOMAIN st |-> IF k \in DOMAIN upd THEN upd[k] ELSE st[k]]

(***************************************************************************)
(* The Turn State handed to graph.invoke: the inputs only.                 *)
(***************************************************************************)
AgentState ==
    [input_text |-> "open Calculator",
     intent |-> Absent,
     justification |-> Absent,
     confidence |-> AbsentConf,
     tool_command |-> AbsentCmd,
     needs_memory |-> FALSE,
     failure_reason |-> Absent,
     recovery_attempt |-> Absent,
     memory_decision |-> AbsentMemDec,
     memory_context |-> Absent,
     tool_result |-> Absent,
     final_response |-> Absent]

(***************************************************************************)
(* Reasoning Engine.                                                       *)
(***************************************************************************)
CrashPrefix == "Reasoning Engine crashed: "

\* What the backend call of the Reasoning Engine can come to: the request
\* raises, the content is not JSON, the JSON is no object, or it is an object.
Details == {"Connection refused", "Expecting value: line 1 column 1 (char 0)",
            "'list' object has no attribute 'get'"}

\* The JSON objects the backend can return; Absent is a key the object lacks,
\* None a JSON null.
Decisions ==
    [intent : {Absent, "chat", "tool", "memory_control"},
     justification : {Absent},
     confidence : {AbsentConf, Num(0), Num(3), Num(5), Num(9), NoneConf, StrConf},
     tool_command : {AbsentCmd, Cmd("list_apps", Absent), Cmd("list_files", EmptyArgs),
                     Cmd("open_app", CalcArgs), StrCmd},
     needs_memory : BOOLEAN,
     final_response : {Absent, "Hello!"},
     memory_decision : {AbsentMemDec, NoneMemDec,
                        MemDec(TRUE, FALSE, <<"Likes coffee">>),
                        MemDec(FALSE, TRUE, <<>>),
                        MemDec(FALSE, TRUE, <<"likes coffee">>)}]

NoDecision == CHOOSE d \in Decisions : TRUE

Replies == [kind : {"raise"}, detail : Details, decision : {NoDecision}]
           \cup [kind : {"object"}, detail : {""}, decision : Decisions]

NoReply == [kind |-> "pending", detail |-> "", decision |-> NoDecision]

\* Faulty variant: the error path reports a confidence of 0.5.
reasoning_crash_confident(detail) ==
    [intent |-> "unknown",
     confidence |-> Num(5),
     failure_reason |-> CrashPrefix \o detail]

reasoning_crash(detail) ==
    [intent |-> "unknown",
     confidence |-> Num(0),
     failure_reason |-> CrashPrefix \o detail]

\* Faulty variant: a decision without a confidence counts as fully confident.
default_confidence_certain == Num(10)

\* decision.get("confidence", 0.0)
default_confidence == Num(0)

reasoning_engine(reply) ==
    IF reply.kind = "raise" THEN reasoning_crash(reply.detail)
    ELSE LET decision == reply.decision
             raw_mem == decision.memory_decision
         IN  IF raw_mem.t = "none"
             THEN reasoning_crash("'NoneType' object has no attribute 'get'")
             ELSE [intent |-> Get(decision.intent, "unknown"),
                   justification |-> Get(decision.justification, "No justification"),
                   confidence |-> IF decision.confidence.t = "absent" THEN default_confidence
                                  ELSE decision.confidence,
                   tool_command |-> IF decision.tool_command.t = "absent" THEN NoneCmd
                                    ELSE decision.tool_command,
                   needs_memory |-> decision.needs_memory,
                   final_response |-> Get(decision.final_response, None),
                   memory_decision |-> MemDec(raw_mem.episodic, raw_mem.long_term,
                                              raw_mem.user_fact),
                   recovery_attempt |-> PyFalse,
                   failure_reason |-> None,
                   memory_context |-> None]

(***************************************************************************)
(* Routing.  "raise" is an exception leaving the routing function.         *)
(***************************************************************************)
\* Faulty variant: the intent is looked at before the confidence.
route_reasoning_intent_first(st) ==
    LET c == IF st.confidence.t = "absent" THEN Num(0) ELSE st.confidence
    IN  IF c.t # "num" THEN "raise"
        ELSE IF st.intent = "tool" THEN "tools"
        ELSE IF c.n < 5 THEN "recovery"
        ELSE IF st.needs_memory THEN "context_loader"
        ELSE "memory"

\* Faulty variant: needs_memory is looked at before the intent.
route_reasoning_memory_first(st) ==
    LET c == IF st.confidence.t = "absent" THEN Num(0) ELSE st.confidence
    IN  IF c.t # "num" THEN "raise"
        ELSE IF c.n < 5 THEN "recovery"
        ELSE IF st.needs_memory THEN "context_loader"
        ELSE IF st.intent = "tool" THEN "tools"
        ELSE "memory"

\* Faulty variant: an unsure decision is sent back to reasoning.
route_reasoning_retries(st) ==
    LET c == IF st.confidence.t = "absent" THEN Num(0) ELSE st.confidence
    IN  IF c.t # "num" THEN "raise"
        ELSE IF c.n < 5 THEN "reasoning"
        ELSE IF st.intent = "tool" THEN "tools"
        ELSE IF st.needs_memory THEN "context_loader"
        ELSE "memory"

route_reasoning(st) ==
    LET c == IF st.confidence.t = "absent" THEN Num(0) ELSE st.confidence
    IN  IF c.t # "num" THEN "raise"
        ELSE IF c.n < 5 THEN "recovery"
        ELSE IF st.intent = "tool" THEN "tools"
        ELSE IF st.needs_memory THEN "context_loader"
        ELSE "memory"

\* Faulty variant: a failed tool goes straight to memory.
route_tools_always_memory(st) == "memory"

route_tools(st) == IF Truthy(st.failure_reason) THEN "recovery" ELSE "memory"

(***************************************************************************)
(* Memory Manager (arc/brain/memory.py).  Time is in hours.  A stored fact *)
(* is a structured record ("dict"), a legacy plain string ("legacy") or a  *)
(* record whose last_used does not parse ("bad").                          *)
(***************************************************************************)
HoursPerDay == 24
DecayDays == 30
MaxStrength == 5
SummaryLimit == 200
ContextLimit == 3

Fact(text, last_used, strength) ==
    [kind |-> "dict", text |-> text, last_used |-> last_used, strength |-> strength]
LegacyFact(text) == [kind |-> "legacy", text |-> text, last_used |-> 0, strength |-> 0]
BadFact(text) == [kind |-> "bad", text |-> text, last_used |-> 0, strength |-> 1]

UpperCase == "ABCDEFGHIJKLMNOPQRSTUVWXYZ"
LowerCase == "abcdefghijklmnopqrstuvwxyz"

UpperSet == {SubSeq(UpperCase, i, i) : i \in 1..Len(UpperCase)}
UpperToLower ==
    [c \in UpperSet |->
       LET i == CHOOSE j \in 1..Len(UpperCase) : SubSeq(UpperCase, j, j) = c
       IN  SubSeq(LowerCase, i, i)]

LowerChar(c) == IF c \in UpperSet THEN UpperToLower[c] ELSE c

RECURSIVE Lower(_)
Lower(s) == IF Len(s) = 0 THEN "" ELSE LowerChar(SubSeq(s, 1, 1)) \o Lower(SubSeq(s, 2, Len(s)))

\* str(result_summary)[:200]
Truncate(s, n) == IF Len(s) <= n THEN s ELSE SubSeq(s, 1, n)

\* (now - last_used).days for a last_used that is not in the future
DaysInactive(t, last_used) == (t - last_used) \div HoursPerDay

RECURSIVE SelectFacts(_, _)
SelectFacts(facts, t) ==
    IF facts = <<>> THEN <<>>
    ELSE LET rest == SelectFacts(Tail(facts), t)
         IN  IF DaysInactive(t, Head(facts).last_used) > DecayDays THEN rest
             ELSE <<Head(facts)>> \o rest

\* _apply_decay: drops every fact not used for more than 30 whole days.
apply_decay(facts, t) == SelectFacts(facts, t)

\* The positions of the facts stored as plain strings.
LegacyAt(doc) == {i \in 1..Len(doc.facts) : doc.facts[i].kind = "legacy"}

\* Faulty variant: a migrated fact starts without strength.
Migrate_without_strength(facts, t) ==
    [i \in 1..Len(facts) |-> IF facts[i].kind = "legacy" THEN Fact(facts[i].text, t, 0)
                             ELSE facts[i]]

\* Schema migration: a legacy string becomes {text, last_used = now, strength = 1}.
Migrate(facts, t) ==
    [i \in 1..Len(facts) |-> IF facts[i].kind = "legacy" THEN Fact(facts[i].text, t, 1)
                             ELSE facts[i]]

\* Faulty variant: the match compares the texts as written.
FindFact_exact(facts, new_f) ==
    IF \E i \in 1..Len(facts) : facts[i].text = new_f
    THEN CHOOSE i \in 1..Len(facts) :
           /\ facts[i].text = new_f
           /\ \A j \in 1..(i - 1) : facts[j].text # new_f
    ELSE 0

\* Index of the first stored fact whose text matches ignoring case, 0 if none.
FindFact(facts, new_f) ==
    IF \E i \in 1..Len(facts) : Lower(facts[i].text) = Lower(new_f)
    THEN CHOOSE i \in 1..Len(facts) :
           /\ Lower(facts[i].text) = Lower(new_f)
           /\ \A j \in 1..(i - 1) : Lower(facts[j].text) # Lower(new_f)
    ELSE 0

Min(a, b) == IF a <= b THEN a ELSE b

\* Faulty variant: a repeated mention strengthens the fact without the cap.
AddFact_uncapped(facts, new_f, t) ==
    LET i == FindFact(facts, new_f)
    IN  IF i = 0 THEN Append(facts, Fact(new_f, t, 1))
        ELSE [facts EXCEPT ![i] = Fact(facts[i].text, t, facts[i].strength + 1)]

AddFact(facts, new_f, t) ==
    LET i == FindFact(facts, new_f)
    IN  IF i = 0 THEN Append(facts, Fact(new_f, t, 1))
        ELSE [facts EXCEPT ![i] = Fact(facts[i].text, t, Min(facts[i].strength + 1, MaxStrength))]

RECURSIVE AddFacts(_, _, _)
AddFacts(facts, new_facts, t) ==
    IF new_facts = <<>> THEN facts
    ELSE AddFacts(AddFact(facts, Head(new_facts), t), Tail(new_facts), t)

\* Outcomes of one call's file I/O: the read fails (I/O error or undecodable
\* content), the write fails leaving the file as it was, the write fails
\* part-way leaving undecodable content, or all of it succeeds.
IOOutcomes == {"ok", "read_error", "write_error", "write_torn"}

\* The facts after migration and the update / add loop, before decay.
UpdatedFacts(doc, new_facts, t) == AddFacts(Migrate(doc.facts, t), new_facts, t)

\* fromisoformat rejects the last_used of some fact, which _apply_decay does
\* not catch.
HasBadFact(facts) == \E i \in 1..Len(facts) : facts[i].kind = "bad"

\* The body of update_profile failed: a read or write error, or a fact the
\* call did not mention whose last_used does not parse.
update_profile_fails(doc, new_facts, t, io) ==
    new_facts # <<>> /\ (io # "ok" \/ HasBadFact(UpdatedFacts(doc, new_facts, t)))

\* The call got as far as its write, and the write failed part-way.
update_profile_tears(doc, new_facts, t, io) ==
    new_facts # <<>> /\ io = "write_torn" /\ ~HasBadFact(UpdatedFacts(doc, new_facts, t))

\* Faulty variant: update_profile without its try/except.
update_profile_unguarded(doc, new_facts, t, io) == update_profile_fails(doc, new_facts, t, io)

\* Whether an exception leaves update_profile: its try/except Exception
\* around the whole body logs and swallows every failure.
update_profile_raises(doc, new_facts, t, io) == FALSE

\* Faulty variant: an empty list still runs migration, decay and the write.
update_profile_eager(doc, new_facts, t, io) ==
    IF io # "ok" \/ HasBadFact(UpdatedFacts(doc, new_facts, t)) THEN doc
    ELSE [doc EXCEPT !.facts = apply_decay(UpdatedFacts(doc, new_facts, t), t)]

\* Faulty variant: the document is rebuilt from the facts alone.
update_profile_drops_preferences(doc, new_facts, t, io) ==
    IF update_profile_fails(doc, new_facts, t, io) \/ new_facts = <<>> THEN doc
    ELSE [facts |-> apply_decay(UpdatedFacts(doc, new_facts, t), t), preferences |-> <<>>]

\* update_profile: the facts document after the call (io = "ok" or not).
update_profile(doc, new_facts, t, io) ==
    IF update_profile_fails(doc, new_facts, t, io) \/ new_facts = <<>> THEN doc
    ELSE [doc EXCEPT !.facts = apply_decay(UpdatedFacts(doc, new_facts, t), t)]

EpisodicEntry(t, intent, tool, args, outcome, result_summary) ==
    [timestamp |-> t, intent |-> intent, tool |-> tool, args |-> args,
     outcome |-> outcome, result_summary |-> Truncate(result_summary, SummaryLimit)]

\* Faulty variant: log_episodic that never rewrites the file.
log_episodic_dropped(data, entry, io) == data

\* Faulty variant: the entry is put in front of the list.
log_episodic_prepends(data, entry, io) == IF io = "ok" THEN <<entry>> \o data ELSE data

log_episodic(data, entry, io) == IF io = "ok" THEN Append(data, entry) ELSE data

get_profile(doc) ==
    [i \in 1..Len(doc.facts) |-> doc.facts[i].text]

\* data[-limit:] if data else []
get_recent_episodic(data, limit) ==
    IF limit = 0 \/ limit >= Len(data) THEN data
    ELSE SubSeq(data, Len(data) - limit + 1, Len(data))

\* Faulty variant: the oldest entry is removed.
delete_last_episodic_oldest(data) == IF data = <<>> THEN data ELSE Tail(data)

delete_last_episodic(data) == IF data = <<>> THEN data ELSE SubSeq(data, 1, Len(data) - 1)

clear_profile_keeps_facts == [facts |-> <<LegacyFact("Has a dog")>>, preferences |-> <<>>]

clear_profile == [facts |-> <<>>, preferences |-> <<>>]

(***************************************************************************)
(* The other nodes.  A node comes to [raised, upd]: either an exception    *)
(* leaves it, or it returns the partial update upd.                        *)
(***************************************************************************)
Returns(upd) == [raised |-> FALSE, upd |-> upd]
Raises == [raised |-> TRUE, upd |-> <<>>]

LongName == "0123456789012345678901234567890123456789012345678901234567890123456789"
            \o "0123456789012345678901234567890123456789012345678901234567890123456789"
            \o "0123456789012345678901234567890123456789012345678901234567890123456789.txt"

\* What os.listdir(".") can come to: a listing, or an OSError.
Listings == {[ok |-> TRUE, files |-> <<"main.py", "README.md">>, error |-> ""],
             [ok |-> TRUE, files |-> <<LongName>>, error |-> ""],
             [ok |-> FALSE, files |-> <<>>, error |-> "[Errno 13] Permission denied: '.'"]}

RECURSIVE Join(_, _)
Join(sep, xs) ==
    IF xs = <<>> THEN ""
    ELSE IF Len(xs) = 1 THEN xs[1]
    ELSE xs[1] \o sep \o Join(sep, Tail(xs))

ListLimit == 5

tool_gateway(st, listing) ==
    LET cmd == st.tool_command
    IN  IF ~CmdTruthy(cmd) THEN Returns([failure_reason |-> "No tool command specified."])
        ELSE IF cmd.t # "dict" THEN Raises
        ELSE LET tool_name == Get(cmd.name, "None")
             IN  IF tool_name = "list_apps"
                 THEN Returns([tool_result |-> "Apps: Code, Chrome, Terminal (Mock)"])
                 ELSE IF tool_name = "list_files"
                 THEN IF listing.ok
                      THEN Returns([tool_result |-> "Files: " \o
                             Join(", ", SubSeq(listing.files, 1, Min(ListLimit, Len(listing.files))))])
                      ELSE Returns([failure_reason |-> listing.error])
                 ELSE Returns([failure_reason |-> "Tool '" \o tool_name \o "' not found."])

\* The backend's answer to a plain-text request: it raises, or returns content.
Contents == {"", "Sorry, could you rephrase that?"}
ChatReplies == [ok : {TRUE}, content : Contents] \cup [ok : {FALSE}, content : {""}]

\* No request of the Chat Responder has been answered.
NoChatReply == [ok |-> FALSE, content |-> "<pending>"]

\* Faulty variant: the Chat Responder also relabels the intent.
chat_responder_relabels(st, reply) ==
    [intent |-> "chat_with_memory",
     final_response |-> IF reply.ok THEN reply.content
                        ELSE "I tried to remember, but something went wrong."]

\* Faulty variant: a failed request is reported in failure_reason.
chat_responder_reports_failure(st, reply) ==
    IF reply.ok THEN [final_response |-> reply.content]
    ELSE [final_response |-> "I tried to remember, but something went wrong.",
          failure_reason |-> "Chat Responder failed"]

chat_responder(st, reply) ==
    IF reply.ok THEN [final_response |-> reply.content]
    ELSE [final_response |-> "I tried to remember, but something went wrong."]

\* Faulty variant: the fallback of the Recovery Engine leaves out its reply.
recovery_engine_silent_fallback(st, reply) ==
    IF reply.ok THEN [final_response |-> reply.content, recovery_attempt |-> PyTrue]
    ELSE [recovery_attempt |-> PyTrue]

\* Faulty variant: the fallback of the Recovery Engine leaves out recovery_attempt.
recovery_engine_unflagged_fallback(st, reply) ==
    IF reply.ok THEN [final_response |-> reply.content, recovery_attempt |-> PyTrue]
    ELSE [final_response |-> "I encountered a critical error and cannot recover."]

recovery_engine(st, reply) ==
    IF reply.ok THEN [final_response |-> reply.content, recovery_attempt |-> PyTrue]
    ELSE [final_response |-> "I encountered a critical error and cannot recover.",
          recovery_attempt |-> PyTrue]

RECURSIVE FactLines(_)
FactLines(facts) ==
    IF facts = <<>> THEN <<>> ELSE <<"- " \o Head(facts)>> \o FactLines(Tail(facts))

RECURSIVE HistoryLines(_)
HistoryLines(h) ==
    IF h = <<>> THEN <<>>
    ELSE <<"- " \o ToString(Head(h).timestamp) \o ": " \o Head(h).tool
           \o " (" \o Head(h).outcome \o ")">> \o HistoryLines(Tail(h))

\* Faulty variant: the whole episodic list is listed.
context_loader_whole_history(epi, prof, trn, mgr_ok, read_p, read_e) ==
    IF ~mgr_ok THEN [memory_context |-> "Error loading memory."]
    ELSE LET facts == IF "profile" \in trn \/ ~read_p THEN <<>> ELSE get_profile(prof)
             history == IF "episodic" \in trn \/ ~read_e THEN <<>> ELSE epi
             part1 == IF facts # <<>>
                      THEN <<"USER PROFILE:\n" \o Join("\n", FactLines(facts))>> ELSE <<>>
             part2 == IF history # <<>>
                      THEN <<"RECENT ACTIVITY:\n" \o Join("\n", HistoryLines(history))>> ELSE <<>>
             context_parts == part1 \o part2
         IN  [memory_context |-> IF context_parts # <<>> THEN Join("\n\n", context_parts)
                                 ELSE "No relevant memory found."]

\* context_loader: mgr_ok is get_memory_manager() returning; a document that
\* cannot be read is seen as empty by the accessors.
context_loader(epi, prof, trn, mgr_ok, read_p, read_e) ==
    IF ~mgr_ok THEN [memory_context |-> "Error loading memory."]
    ELSE LET facts == IF "profile" \in trn \/ ~read_p THEN <<>> ELSE get_profile(prof)
             history == IF "episodic" \in trn \/ ~read_e THEN <<>>
                        ELSE get_recent_episodic(epi, ContextLimit)
             part1 == IF facts # <<>>
                      THEN <<"USER PROFILE:\n" \o Join("\n", FactLines(facts))>> ELSE <<>>
             part2 == IF history # <<>>
                      THEN <<"RECENT ACTIVITY:\n" \o Join("\n", HistoryLines(history))>> ELSE <<>>
             context_parts == part1 \o part2
         IN  [memory_context |-> IF context_parts # <<>> THEN Join("\n\n", context_parts)
                                 ELSE "No relevant memory found."]

\* Faulty variant: facts are stored whether or not long_term is set.
writes_profile_any_fact(dec) == dec.t = "dict" /\ dec.user_fact # <<>>

\* if dec.get("long_term") and dec.get("user_fact")
writes_profile(dec) == dec.t = "dict" /\ dec.long_term /\ dec.user_fact # <<>>

\* memory_processor: the store after the node, [episodic, profile, torn], and
\* the update it returns to the Orchestrator, which is {} on every path.  An
\* exception inside its try skips the rest of the node.
memory_processor(st, epi, prof, trn, t, mgr_ok, io_p, io_e) ==
    LET dec == st.memory_decision
        do_profile == writes_profile(dec)
        iop == IF "profile" \in trn THEN "read_error" ELSE io_p
        ioe == IF "episodic" \in trn THEN "read_error" ELSE io_e
        prof1 == IF do_profile THEN update_profile(prof, dec.user_fact, t, iop) ELSE prof
        torn1 == IF do_profile /\ update_profile_tears(prof, dec.user_fact, t, iop)
                 THEN trn \cup {"profile"} ELSE trn
        skipped == do_profile /\ update_profile_raises(prof, dec.user_fact, t, iop)
        cmd == st.tool_command
        do_log == ~skipped /\ st.intent = "tool" /\ (~CmdTruthy(cmd) \/ cmd.t = "dict")
        outcome == IF Truthy(st.failure_reason) THEN "failure" ELSE "success"
        result == IF Truthy(st.failure_reason) THEN st.failure_reason
                  ELSE IF Truthy(st.tool_result) THEN st.tool_result
                  ELSE "No result"
        entry == EpisodicEntry(t, st.intent,
                               IF CmdTruthy(cmd) THEN Get(cmd.name, "unknown") ELSE "unknown",
                               IF CmdTruthy(cmd) THEN Get(cmd.args, EmptyArgs) ELSE EmptyArgs,
                               outcome, result)
    IN  IF ~mgr_ok THEN [episodic |-> epi, profile |-> prof, torn |-> trn, upd |-> <<>>]
        ELSE [episodic |-> IF do_log THEN log_episodic(epi, entry, ioe) ELSE epi,
              profile |-> prof1,
              torn |-> IF do_log /\ ioe = "write_torn" THEN torn1 \cup {"episodic"} ELSE torn1,
              upd |-> <<>>]

(***************************************************************************)
(* The graph.                                                              *)
(***************************************************************************)
StartHour == 40 * HoursPerDay

InitEntry(t) == EpisodicEntry(t, "tool", "list_apps", EmptyArgs, "success",
                              "Apps: Code, Chrome, Terminal (Mock)")

\* Stores earlier turns can have left: up to MaxInitEpisodic logged tool
\* calls, and a profile that is empty, holds a fact unused for 31 days and a
\* fresh one, or holds a fact in the legacy format.
InitEpisodics == {[i \in 1..n |-> InitEntry(StartHour - 1 - n + i)] : n \in 0..MaxInitEpisodic}

InitFacts == {<<>>,
              <<Fact("Has a dog", StartHour - (DecayDays + 1) * HoursPerDay, 1),
                Fact("Likes coffee", StartHour - 1, 1)>>,
              <<LegacyFact("Likes coffee")>>,
              <<BadFact("Has a dog")>>}

NoMemIO == [mgr_ok |-> TRUE, io_p |-> "pending", io_e |-> "pending", ctx |-> "pending",
            chat |-> NoChatReply, requests |-> <<>>]

\* No two calls in flight.
NoRace == [op |-> "none", at |-> <<"done", "done">>, buf |-> <<<<>>, <<>>>>,
           completed |-> <<FALSE, FALSE>>, order |-> <<>>, doc0 |-> <<>>]

\* No tool provider called.
NoCall == [provider |-> "none", at |-> "none"]

\* The voice loop is not running.
NoVoice == [at |-> "off"]

\* No Memory Manager call made yet.
NoHist == [calls |-> 0, ticks |-> 0, op |-> "none", io |-> "ok", ok |-> TRUE,
           new_facts |-> <<>>, limit |-> 0, recent |-> <<>>,
           asked |-> 0, first_asked |-> 0, last_asked |-> 0, failed |-> FALSE,
           from_empty |-> TRUE, wiped |-> 0, migrated |-> 0,
           before |-> <<>>, logged |-> <<>>]

Goto(node) == IF node = "raise" THEN "raised" ELSE node

\* The node at pc has run and the edge after it leads to next.
Step(next) ==
    /\ pc' = Goto(next)
    /\ trace' = Append(trace, pc)

Init ==
    /\ pc = "reasoning"
    /\ state = AgentState
    /\ trace = <<>>
    /\ llm_reply = NoReply
    /\ episodic \in InitEpisodics
    /\ profile \in [facts : InitFacts, preferences : {<<>>}]
    /\ torn = {}
    /\ now = StartHour
    /\ mem_io = NoMemIO
    /\ hist = NoHist
    /\ race = NoRace
    /\ mcp = NoCall
    /\ voice = NoVoice

Reasoning ==
    /\ pc = "reasoning"
    /\ \E reply \in Replies :
         /\ llm_reply' = reply
         /\ state' = Merge(state, reasoning_engine(reply))
         /\ Step(route_reasoning(state'))
    /\ mem_io' = [mem_io EXCEPT !.requests = Append(@, "reasoning")]
    /\ UNCHANGED <<episodic, profile, torn, now, hist, race, mcp, voice>>

Tools ==
    /\ pc = "tools"
    /\ \E listing \in Listings :
         LET r == tool_gateway(state, listing)
         IN  IF r.raised
             THEN state' = state /\ Step("raise")
             ELSE state' = Merge(state, r.upd) /\ Step(route_tools(state'))
    /\ UNCHANGED <<llm_reply, episodic, profile, torn, now, mem_io, hist, race, mcp, voice>>

ContextLoader ==
    /\ pc = "context_loader"
    /\ \E mgr_ok \in BOOLEAN, read_p \in BOOLEAN, read_e \in BOOLEAN :
         /\ state' = Merge(state, context_loader(episodic, profile, torn, mgr_ok, read_p, read_e))
         /\ mem_io' = [mem_io EXCEPT !.ctx = IF ~mgr_ok THEN "mgr_error"
                                              ELSE IF read_p /\ read_e THEN "ok"
                                              ELSE "read_error"]
    /\ Step("chat_responder")
    /\ UNCHANGED <<llm_reply, episodic, profile, torn, now, hist, race, mcp, voice>>

ChatResponder ==
    /\ pc = "chat_responder"
    /\ \E reply \in ChatReplies :
         /\ state' = Merge(state, chat_responder(state, reply))
         /\ mem_io' = [mem_io EXCEPT !.chat = reply,
                                     !.requests = Append(@, "chat_responder")]
    /\ Step("memory")
    /\ UNCHANGED <<llm_reply, episodic, profile, torn, now, hist, race, mcp, voice>>

Recovery ==
    /\ pc = "recovery"
    /\ \E reply \in ChatReplies : state' = Merge(state, recovery_engine(state, reply))
    /\ mem_io' = [mem_io EXCEPT !.requests = Append(@, "recovery")]
    /\ Step("memory")
    /\ UNCHANGED <<llm_reply, episodic, profile, torn, now, hist, race, mcp, voice>>

\* The I/O outcomes are drawn for the calls the node makes.
Memory ==
    /\ pc = "memory"
    /\ \E mgr_ok \in BOOLEAN :
       \E io_p \in IF mgr_ok /\ state.memory_decision.long_term THEN IOOutcomes ELSE {"ok"} :
       \E io_e \in IF mgr_ok /\ state.intent = "tool" THEN IOOutcomes ELSE {"ok"} :
         LET m == memory_processor(state, episodic, profile, torn, now, mgr_ok, io_p, io_e)
         IN  /\ episodic' = m.episodic
             /\ profile' = m.profile
             /\ torn' = m.torn
             /\ state' = Merge(state, m.upd)
             /\ mem_io' = [mem_io EXCEPT !.mgr_ok = mgr_ok, !.io_p = io_p, !.io_e = io_e]
    /\ Step("end")
    /\ UNCHANGED <<llm_reply, now, hist, race, mcp, voice>>

Next ==
    \/ Reasoning
    \/ Tools
    \/ ContextLoader
    \/ ChatResponder
    \/ Recovery
    \/ Memory

Spec == Init /\ [][Next]_vars

(***************************************************************************)
(* Properties of a turn.                                                   *)
(***************************************************************************)
Ran(node) == \E i \in 1..Len(trace) : trace[i] = node

Count(node) == Cardinality({i \in 1..Len(trace) : trace[i] = node})

\* The node that ran after the i-th node of the turn, or the one about to run.
NodeAfter(i) == IF i < Len(trace) THEN trace[i + 1] ELSE pc

IndexOf(node) == CHOOSE i \in 1..Len(trace) : trace[i] = node

ReasoningDone == Len(trace) >= 1

LowConfidence == state.confidence.t = "num" /\ state.confidence.n < 5
HighConfidence == state.confidence.t = "num" /\ state.confidence.n >= 5

\* C1: whenever the reasoning output has confidence < 0.5, the node after
\* reasoning is recovery whatever intent, tool_command and needs_memory are,
\* and the Tool Gateway does not run in that turn.
C1_LowConfidenceGoesToRecovery ==
    (ReasoningDone /\ LowConfidence) =>
        /\ NodeAfter(1) = "recovery"
        /\ ~Ran("tools")
        /\ pc # "tools"

C1_Witness ==
    /\ pc = "end"
    /\ state.intent = "tool"
    /\ state.confidence = Num(3)
    /\ state.tool_command = Cmd("list_apps", Absent)
    /\ state.needs_memory
    /\ trace = <<"reasoning", "recovery", "memory">>

\* C2 (as claimed): no node and no routing function lets an exception leave
\* the turn, whatever decision the backend returns.
C2_NoExceptionLeavesTheTurn == pc # "raised"

\* C3 (as claimed): reasoning is the first node, and a turn that has stopped
\* ran the memory node exactly once, as its last node.
C3_EveryTurnEndsThroughMemory ==
    /\ ReasoningDone => trace[1] = "reasoning"
    /\ pc \in {"end", "raised"} =>
          /\ Count("memory") = 1
          /\ trace[Len(trace)] = "memory"

\* C4: with confidence >= 0.5 the node after reasoning is tools when the
\* intent is tool (the Context Loader then does not run, needs_memory or
\* not), else context_loader when needs_memory, else memory; never recovery.
C4_HighConfidencePriority ==
    (ReasoningDone /\ HighConfidence) =>
        /\ NodeAfter(1) = IF state.intent = "tool" THEN "tools"
                          ELSE IF state.needs_memory THEN "context_loader"
                          ELSE "memory"
        /\ state.intent = "tool" => ~Ran("context_loader") /\ pc # "context_loader"

C4_Witness ==
    /\ pc = "end"
    /\ state.intent = "tool"
    /\ state.needs_memory
    /\ state.confidence = Num(5)
    /\ trace = <<"reasoning", "tools", "memory">>

IsSet(s) == s \notin {None, Absent}

\* The backend request of the Reasoning Engine raised, or its content was not
\* a JSON object.
BackendFailed == llm_reply.kind = "raise"

Crashed == StartsWith(state.failure_reason, CrashPrefix)

C7_FinalResponseAtEnd == pc = "end" => Truthy(state.final_response)

\* C8: at end, recovery_attempt is true exactly when the Recovery Engine ran
\* in the turn, also when its own backend request failed.
C8_RecoveryAttemptIffRecoveryRan ==
    pc = "end" => (state.recovery_attempt = PyTrue <=> Ran("recovery"))

C8_Witness ==
    /\ pc = "end"
    /\ BackendFailed
    /\ Ran("recovery")
    /\ state.final_response = "I encountered a critical error and cannot recover."
    /\ state.recovery_attempt = PyTrue

C10_ZeroConfidenceOnlyOnCrash ==
    (ReasoningDone /\ state.confidence = Num(0)) => Crashed

ParsedWithoutConfidence ==
    /\ llm_reply.kind = "object"
    /\ llm_reply.decision.memory_decision.t # "none"
    /\ llm_reply.decision.confidence \in {AbsentConf, Num(0)}

\* C10 (amended): an error of the Reasoning Engine always gives confidence 0
\* with a "Reasoning Engine crashed" failure_reason, but a parsed decision
\* that omits confidence or reports 0 gives confidence 0 too, with
\* failure_reason unset; these are the only two ways, and either way the
\* turn goes to recovery.
C10_ZeroConfidenceCrashOrDefault ==
    ReasoningDone =>
        /\ BackendFailed => state.confidence = Num(0) /\ Crashed
        /\ Crashed => state.confidence = Num(0)
        /\ ParsedWithoutConfidence =>
              state.confidence = Num(0) /\ ~Truthy(state.failure_reason)
        /\ state.confidence = Num(0) =>
              /\ Crashed \/ ParsedWithoutConfidence
              /\ NodeAfter(1) = "recovery"

C10_Witness ==
    /\ pc = "end"
    /\ llm_reply.kind = "object"
    /\ llm_reply.decision.confidence = AbsentConf
    /\ llm_reply.decision.intent = "tool"
    /\ state.confidence = Num(0)
    /\ state.failure_reason = None
    /\ trace = <<"reasoning", "recovery", "memory">>

(***************************************************************************)
(* Episodic logging by the memory node.                                    *)
(***************************************************************************)

\* The entries of the store written in this turn: every entry the store held
\* before the turn is older than the turn's clock.
NewEntries == {i \in 1..Len(episodic) : episodic[i].timestamp = now}

LastEntry == episodic[Len(episodic)]

\* The memory node got the Memory Manager and its episodic read and rewrite
\* went through.
EpisodicStoreOk == mem_io.mgr_ok /\ mem_io.io_e = "ok"

GatewayReturned == pc = "end" /\ state.intent = "tool" /\ Ran("tools")

GatewaySucceeded == GatewayReturned /\ ~Truthy(state.failure_reason)

GatewayFailed == GatewayReturned /\ Truthy(state.failure_reason)

\* What the entry of a turn whose gateway returned must record.
RecordsTheToolRun ==
    /\ Cardinality(NewEntries) = 1
    /\ NewEntries = {Len(episodic)}
    /\ GatewaySucceeded =>
          /\ LastEntry.outcome = "success"
          /\ LastEntry.tool = state.tool_command.name
          /\ LastEntry.args = Get(state.tool_command.args, EmptyArgs)
    /\ GatewayFailed => LastEntry.outcome = "failure"

C12_EntryOnlyAfterGatewayRan ==
    \A i \in NewEntries :
        /\ state.intent = "tool"
        /\ Ran("tools")
        /\ episodic[i].outcome = "success" => Truthy(state.tool_result)

(***************************************************************************)
(* The Tool Gateway's contract.                                            *)
(***************************************************************************)

\* The Tool Gateway ran and an exception left it.
GatewayRaised == Ran("tools") /\ trace[Len(trace)] = "tools" /\ pc = "raised"

KnownTools == {"list_apps", "list_files"}

\* C13: the Tool Gateway lets no exception reach the Orchestrator whatever
\* tool_command is (absent or null, an unrecognized name, a provider that
\* raises, a value that is no mapping): once it ran, exactly one of
\* tool_result and failure_reason is set, and an unrecognized tool name gives
\* a failure_reason saying the tool was not found.
C13_GatewayAlwaysReturnsOneOutcome ==
    Ran("tools") =>
        /\ ~GatewayRaised
        /\ Truthy(state.tool_result) # Truthy(state.failure_reason)
        /\ (state.tool_command.t = "dict" /\ state.tool_command.name \notin KnownTools)
              => state.failure_reason = "Tool '" \o state.tool_command.name \o "' not found."

(***************************************************************************)
(* Memory failures are swallowed.                                          *)
(***************************************************************************)

\* The memory node called update_profile with the turn's facts.
ProfileUpdateCalled ==
    /\ state.memory_decision.t = "dict"
    /\ state.memory_decision.long_term
    /\ state.memory_decision.user_fact # <<>>

\* The memory node reaches its log_episodic call if nothing before it raises.
EpisodicLogDue ==
    state.intent = "tool" /\ (~CmdTruthy(state.tool_command) \/ state.tool_command.t = "dict")

TurnOutcome(st) == <<st.final_response, st.failure_reason, st.recovery_attempt, st.tool_result>>

\* C14: whatever fails in the memory node or in a Memory Manager operation
\* (the manager cannot be obtained, a read or write error, undecodable
\* content, a malformed stored fact), the node raises nothing and changes no
\* Turn State field, so final_response, failure_reason, recovery_attempt and
\* tool_result at the end are those on entry to the node; and when the
\* profile update fails, the episodic logging of the same turn still happens.
C14_MemoryFailureChangesNothing ==
    [][pc = "memory" =>
         /\ pc' = "end"
         /\ state' = state
         /\ TurnOutcome(state') = TurnOutcome(state)
         /\ ( /\ mem_io'.mgr_ok
              /\ ProfileUpdateCalled
              /\ update_profile_fails(profile, state.memory_decision.user_fact, now, mem_io'.io_p)
              /\ EpisodicLogDue
              /\ mem_io'.io_e = "ok" )
            => /\ Len(episodic') = Len(episodic) + 1
               /\ episodic'[Len(episodic')].timestamp = now
               /\ SubSeq(episodic', 1, Len(episodic)) = episodic
               /\ profile' = profile]_vars

C14_Witness ==
    /\ pc = "end"
    /\ ProfileUpdateCalled
    /\ mem_io.mgr_ok
    /\ mem_io.io_p \in {"read_error", "write_error", "write_torn"}
    /\ mem_io.io_e = "ok"
    /\ NewEntries = {Len(episodic)}
    /\ IsSet(state.final_response)

(***************************************************************************)
(* The Memory Manager under direct, sequential use: one caller makes one   *)
(* call at a time on a store that _ensure_storage has just created, and    *)
(* the clock advances between calls.                                       *)
(***************************************************************************)
MaxProfileCalls == 2
MaxTicks == 2
MaxEpisodicCalls == 4
MaxLimit == 2

\* The clock advances by an hour or by thirty days.
TickHours == {1, DecayDays * HoursPerDay}

Coffee == "Likes coffee"

\* The new_facts arguments of update_profile.
FactLists == {<<>>, <<Coffee>>, <<"LIKES COFFEE", "likes coffee", Coffee>>,
              <<"Has a dog", "LIKES COFFEE", "likes coffee", Coffee>>}

\* How many times a list mentions a text, ignoring case.
Mentions(new_facts, text) ==
    Cardinality({i \in 1..Len(new_facts) : Lower(new_facts[i]) = Lower(text)})

\* The arguments of log_episodic.
LogInputs ==
    {[tool |-> "list_apps", args |-> EmptyArgs, outcome |-> "success",
      result_summary |-> "Apps: Code, Chrome, Terminal (Mock)"],
     [tool |-> "list_files", args |-> EmptyArgs, outcome |-> "success",
      result_summary |-> "Files: " \o LongName],
     [tool |-> "open_app", args |-> CalcArgs, outcome |-> "failure",
      result_summary |-> "Tool 'open_app' not found."]}

\* The store is as _ensure_storage creates it, or holds a profile written
\* before facts carried metadata.
InitMemory ==
    /\ pc = "idle"
    /\ state = AgentState
    /\ trace = <<>>
    /\ llm_reply = NoReply
    /\ episodic = <<>>
    /\ \/ /\ profile = clear_profile
          /\ hist = NoHist
       \/ /\ profile = [clear_profile EXCEPT !.facts = <<LegacyFact("Has a dog")>>]
          /\ hist = [NoHist EXCEPT !.from_empty = FALSE]
    /\ torn = {}
    /\ now = StartHour
    /\ mem_io = NoMemIO
    /\ race = NoRace
    /\ mcp = NoCall
    /\ voice = NoVoice

\* A read of a document that a failed write left undecodable fails.
ReadOutcomes(doc, outcomes) == IF doc \in torn THEN {"read_error"} ELSE outcomes

UpdateProfile ==
    /\ pc = "idle"
    /\ hist.calls < MaxProfileCalls
    /\ \E new_facts \in FactLists :
       \E io \in ReadOutcomes("profile", IOOutcomes) :
         LET m == Mentions(new_facts, Coffee)
             failed == update_profile_fails(profile, new_facts, now, io)
         IN  /\ profile' = update_profile(profile, new_facts, now, io)
             /\ torn' = IF update_profile_tears(profile, new_facts, now, io)
                        THEN torn \cup {"profile"} ELSE torn
             /\ hist' = [hist EXCEPT !.calls = @ + 1, !.op = "update_profile", !.io = io,
                                     !.ok = ~failed, !.new_facts = new_facts,
                                     !.asked = @ + m,
                                     !.first_asked = IF hist.asked = 0 /\ m > 0 THEN now ELSE @,
                                     !.last_asked = IF m > 0 THEN now ELSE @,
                                     !.failed = @ \/ failed,
                                     !.migrated = IF failed \/ new_facts = <<>> THEN 0
                                                  ELSE Cardinality(LegacyAt(profile)),
                                     !.before = <<>>, !.logged = <<>>]
    /\ UNCHANGED <<pc, state, trace, llm_reply, episodic, now, mem_io, race, mcp, voice>>

\* clear_profile writes the default document without reading the old one.
ClearProfile ==
    /\ pc = "idle"
    /\ hist.calls < MaxProfileCalls
    /\ \E io \in {"ok", "write_error", "write_torn"} :
         /\ profile' = IF io = "ok" THEN clear_profile ELSE profile
         /\ torn' = IF io = "ok" THEN torn \ {"profile"}
                    ELSE IF io = "write_torn" THEN torn \cup {"profile"} ELSE torn
         /\ hist' = [hist EXCEPT !.calls = @ + 1, !.op = "clear_profile", !.io = io,
                                 !.ok = (io = "ok"), !.new_facts = <<>>,
                                 !.asked = IF io = "ok" THEN 0 ELSE @,
                                 !.from_empty = @ \/ io = "ok",
                                 !.failed = IF io = "ok" THEN FALSE ELSE (@ \/ io = "write_torn"),
                                 !.wiped = IF io = "ok" THEN Len(profile.facts) ELSE @,
                                 !.before = <<>>, !.logged = <<>>]
    /\ UNCHANGED <<pc, state, trace, llm_reply, episodic, now, mem_io, race, mcp, voice>>

GetProfile ==
    /\ pc = "idle"
    /\ hist.calls < MaxProfileCalls
    /\ \E io \in ReadOutcomes("profile", {"ok", "read_error"}) :
         hist' = [hist EXCEPT !.calls = @ + 1, !.op = "get_profile", !.io = io,
                              !.ok = (io = "ok"),
                              !.new_facts = IF io = "ok" THEN get_profile(profile) ELSE <<>>,
                              !.before = <<>>, !.logged = <<>>]
    /\ UNCHANGED <<pc, state, trace, llm_reply, episodic, profile, torn, now, mem_io, race, mcp,
                   voice>>

Tick ==
    /\ pc = "idle"
    /\ hist.ticks < MaxTicks
    /\ \E d \in TickHours : now' = now + d
    /\ hist' = [hist EXCEPT !.ticks = @ + 1, !.op = "tick", !.io = "ok", !.ok = TRUE,
                            !.new_facts = <<>>]
    /\ UNCHANGED <<pc, state, trace, llm_reply, episodic, profile, torn, mem_io, race, mcp,
                   voice>>

NextProfile == UpdateProfile \/ ClearProfile \/ GetProfile \/ Tick

SpecProfile == InitMemory /\ [][NextProfile]_vars

(***************************************************************************)
(* The profile under update_profile, clear_profile and get_profile.        *)
(***************************************************************************)

\* The stored facts whose text is the coffee fact in some letter case.
CoffeeFacts == {i \in 1..Len(profile.facts) : Lower(profile.facts[i].text) = Lower(Coffee)}

\* All mentions since the profile was empty lie within thirty days.
WithinDecayWindow == now - hist.first_asked <= DecayDays * HoursPerDay

\* One stored coffee fact, as strong as it was mentioned and last used at
\* the latest mention.
OneFactPerMentionedText ==
    /\ Cardinality(CoffeeFacts) = 1
    /\ \A i \in CoffeeFacts :
         /\ profile.facts[i].strength = Min(hist.asked, MaxStrength)
         /\ profile.facts[i].last_used = hist.last_asked

C16_FactsKeyedByNormalizedText ==
    hist.from_empty =>
        /\ \A i, j \in 1..Len(profile.facts) :
             i # j => Lower(profile.facts[i].text) # Lower(profile.facts[j].text)
        /\ \A i \in 1..Len(profile.facts) :
             /\ profile.facts[i].kind = "dict"
             /\ profile.facts[i].strength \in 1..MaxStrength

C16_Witness ==
    /\ hist.from_empty
    /\ Len(profile.facts) = 2
    /\ hist.asked > MaxStrength
    /\ \E i \in CoffeeFacts : profile.facts[i].strength = MaxStrength

\* The last call was an update_profile with a non-empty list that completed.
UpdateCompleted == hist.op = "update_profile" /\ hist.ok /\ hist.new_facts # <<>>

\* C17: after a successful non-empty update_profile call at time now the
\* profile holds no fact with now - last_used > 30 days, the age being
\* compared finer than in whole days (30 days and 1 hour is older than 30
\* days), and no fact mentioned in the call was removed by it.
C17_NoFactOlderThanThirtyDays ==
    UpdateCompleted =>
        /\ \A i \in 1..Len(profile.facts) :
             now - profile.facts[i].last_used <= DecayDays * HoursPerDay
        /\ \A k \in 1..Len(hist.new_facts) :
             \E i \in 1..Len(profile.facts) :
                 Lower(profile.facts[i].text) = Lower(hist.new_facts[k])

\* This step is an update_profile call with the empty list.
EmptyUpdateStep ==
    /\ hist'.calls = hist.calls + 1
    /\ hist'.op = "update_profile"
    /\ hist'.new_facts = <<>>

\* C18: update_profile with an empty list is a no-op: whatever the stored
\* profile document is, it is identical after the call, with no decay, no
\* migration and no write.
C18_EmptyUpdateIsNoOp ==
    [][EmptyUpdateStep => (profile' = profile /\ torn' = torn)]_vars

\* An empty update has just left alone a fact that decay would remove, or a
\* fact that migration would rewrite, whatever the file I/O would have done.
C18_Witness ==
    /\ hist.op = "update_profile"
    /\ hist.new_facts = <<>>
    /\ hist.io = "ok"
    /\ \E i \in 1..Len(profile.facts) :
         \/ profile.facts[i].kind = "legacy"
         \/ /\ profile.facts[i].kind = "dict"
            /\ DaysInactive(now, profile.facts[i].last_used) > DecayDays

(***************************************************************************)
(* The episodic list under log_episodic, delete_last_episodic and          *)
(* get_recent_episodic.                                                    *)
(***************************************************************************)

LogEpisodic ==
    /\ pc = "idle"
    /\ hist.calls < MaxEpisodicCalls
    /\ \E inp \in LogInputs :
       \E io \in ReadOutcomes("episodic", IOOutcomes) :
         LET entry == EpisodicEntry(now, "tool", inp.tool, inp.args, inp.outcome,
                                    inp.result_summary)
         IN  /\ episodic' = log_episodic(episodic, entry, io)
             /\ torn' = IF io = "write_torn" THEN torn \cup {"episodic"} ELSE torn
             /\ hist' = [hist EXCEPT !.calls = @ + 1, !.op = "log_episodic", !.io = io,
                                     !.ok = (io = "ok"), !.limit = 0, !.recent = <<>>,
                                     !.before = IF io = "ok" THEN episodic ELSE <<>>,
                                     !.logged = IF io = "ok" THEN <<entry>> ELSE <<>>]
    /\ UNCHANGED <<pc, state, trace, llm_reply, profile, now, mem_io, race, mcp, voice>>

\* delete_last_episodic rewrites the file only when the list it read is not
\* empty.
DeleteLastEpisodic ==
    /\ pc = "idle"
    /\ hist.calls < MaxEpisodicCalls
    /\ \E io \in ReadOutcomes("episodic", IF episodic = <<>> THEN {"ok", "read_error"}
                                          ELSE IOOutcomes) :
         /\ episodic' = IF io = "ok" THEN delete_last_episodic(episodic) ELSE episodic
         /\ torn' = IF io = "write_torn" THEN torn \cup {"episodic"} ELSE torn
         /\ hist' = [hist EXCEPT !.calls = @ + 1, !.op = "delete_last_episodic", !.io = io,
                                 !.ok = (io = "ok"), !.limit = 0, !.recent = <<>>,
                                 !.before = <<>>,
                                 !.logged = IF hist.op = "log_episodic" /\ io = "ok"
                                            THEN hist.logged ELSE <<>>]
    /\ UNCHANGED <<pc, state, trace, llm_reply, profile, now, mem_io, race, mcp, voice>>

GetRecentEpisodic ==
    /\ pc = "idle"
    /\ hist.calls < MaxEpisodicCalls
    /\ \E limit \in 0..MaxLimit :
       \E io \in ReadOutcomes("episodic", {"ok", "read_error"}) :
         hist' = [hist EXCEPT !.calls = @ + 1, !.op = "get_recent_episodic", !.io = io,
                              !.ok = (io = "ok"), !.limit = limit,
                              !.recent = IF io = "ok" THEN get_recent_episodic(episodic, limit)
                                         ELSE <<>>,
                              !.before = <<>>, !.logged = <<>>]
    /\ UNCHANGED <<pc, state, trace, llm_reply, episodic, profile, torn, now, mem_io, race, mcp,
                   voice>>

NextEpisodic == LogEpisodic \/ DeleteLastEpisodic \/ GetRecentEpisodic

SpecEpisodic == InitMemory /\ [][NextEpisodic]_vars

\* The last min(limit, length) entries of the stored list, in insertion order.
LastEntries(data, limit) ==
    SubSeq(data, Len(data) - Min(limit, Len(data)) + 1, Len(data))

\* C19: for every stored episodic list and every limit, get_recent_episodic
\* returns exactly the last min(limit, length) entries in insertion order,
\* never more than limit (limit 0 returns the empty sequence).
C19_RecentIsLastLimitEntries ==
    (hist.op = "get_recent_episodic" /\ hist.io = "ok") =>
        /\ hist.recent = LastEntries(episodic, hist.limit)
        /\ Len(hist.recent) <= hist.limit

\* This step is a call of the named operation.
CallStep(op) == hist'.calls = hist.calls + 1 /\ hist'.op = op

\* Every entry stored before the step is stored, unchanged and at the same
\* place, after it, in a document that can still be decoded.
EntriesKept ==
    /\ Len(episodic') >= Len(episodic)
    /\ SubSeq(episodic', 1, Len(episodic)) = episodic
    /\ (episodic # <<>> /\ "episodic" \in torn') => "episodic" \in torn

\* C20: the episodic list is append-only under sequential use: each
\* successful log_episodic call makes the list one longer, puts the new
\* entry last with its result_summary cut to at most 200 characters and
\* leaves the earlier entries unchanged; and over any sequence of operations
\* an existing entry is removed or changed only by delete_last_episodic.
C20_EpisodicIsAppendOnly ==
    [][ /\ (CallStep("log_episodic") /\ hist'.ok) =>
              /\ Len(episodic') = Len(episodic) + 1
              /\ Len(episodic'[Len(episodic')].result_summary) <= SummaryLimit
              /\ EntriesKept
        /\ ~EntriesKept => CallStep("delete_last_episodic") ]_vars

\* The list without its most recently appended entry.
Front(data) == SubSeq(data, 1, Len(data) - 1)

Writers == {1, 2}

\* What each of the two calls logs, and the facts each one mentions.
RaceEntry(p) ==
    IF p = 1 THEN EpisodicEntry(now, "tool", "list_apps", EmptyArgs, "success",
                                "Apps: Code, Chrome, Terminal (Mock)")
    ELSE EpisodicEntry(now, "tool", "open_app", CalcArgs, "failure",
                       "Tool 'open_app' not found.")

RaceFacts == <<<<Coffee>>, <<"Has a dog">>>>

\* The document the two calls work on.
Stored == IF race.op = "log_episodic" THEN episodic ELSE profile

RacedFile == IF race.op = "log_episodic" THEN "episodic" ELSE "profile"

\* The document that call p writes when it starts from document d.
Apply(d, p) ==
    IF race.op = "log_episodic" THEN log_episodic(d, RaceEntry(p), "ok")
    ELSE update_profile(d, RaceFacts[p], now, "ok")

\* Faulty variant: the write starts from the document as it is stored now.
WriteBase_fresh(p) == Stored

\* The document a call changes and writes back is the one it read.
WriteBase(p) == race.buf[p]

InitRace ==
    /\ pc = "idle"
    /\ state = AgentState
    /\ trace = <<>>
    /\ llm_reply = NoReply
    /\ episodic \in InitEpisodics
    /\ profile \in [facts : InitFacts, preferences : {<<>>}]
    /\ torn = {}
    /\ now = StartHour
    /\ mem_io = NoMemIO
    /\ hist = NoHist
    /\ mcp = NoCall
    /\ voice = NoVoice
    /\ \E op \in {"log_episodic", "update_profile"} :
         race = [op |-> op, at |-> <<"start", "start">>,
                 buf |-> IF op = "log_episodic" THEN <<episodic, episodic>>
                         ELSE <<profile, profile>>,
                 completed |-> <<FALSE, FALSE>>, order |-> <<>>,
                 doc0 |-> IF op = "log_episodic" THEN episodic ELSE profile]

\* Call p reads and decodes the file.
RaceRead(p) ==
    /\ race.at[p] = "start"
    /\ \E io \in ReadOutcomes(RacedFile, {"ok", "read_error"}) :
         race' = [race EXCEPT !.at[p] = IF io = "ok" THEN "read" ELSE "done",
                              !.buf[p] = IF io = "ok" THEN Stored ELSE @,
                              !.order = Append(@, <<p, "read">>)]
    /\ UNCHANGED <<pc, state, trace, llm_reply, episodic, profile, torn, now, mem_io, hist, mcp,
                   voice>>

\* Call p changes its copy and rewrites the file; update_profile fails before
\* its write when a last_used does not parse.
RaceWrite(p) ==
    /\ race.at[p] = "read"
    /\ \E io \in {"ok", "write_error", "write_torn"} :
         LET raised == /\ race.op = "update_profile"
                       /\ update_profile_fails(WriteBase(p), RaceFacts[p], now, "ok")
             written == io = "ok" /\ ~raised
             doc == Apply(WriteBase(p), p)
         IN  /\ episodic' = IF written /\ race.op = "log_episodic" THEN doc ELSE episodic
             /\ profile' = IF written /\ race.op = "update_profile" THEN doc ELSE profile
             /\ torn' = IF raised THEN torn
                        ELSE IF io = "ok" THEN torn \ {RacedFile}
                        ELSE IF io = "write_torn" THEN torn \cup {RacedFile}
                        ELSE torn
             /\ race' = [race EXCEPT !.at[p] = "done",
                                     !.completed[p] = written,
                                     !.order = Append(@, <<p, "write">>)]
    /\ UNCHANGED <<pc, state, trace, llm_reply, now, mem_io, hist, mcp, voice>>

NextRace == \E p \in Writers : RaceRead(p) \/ RaceWrite(p)

SpecRace == InitRace /\ [][NextRace]_vars

\* Both calls have returned, and neither met an error.
BothCompleted ==
    /\ race.op # "none"
    /\ \A p \in Writers : race.at[p] = "done" /\ race.completed[p]

\* Call a returned before call b began.
Serial(a, b) == race.order = <<<<a, "read">>, <<a, "write">>, <<b, "read">>, <<b, "write">>>>

Interleaved == ~Serial(1, 2) /\ ~Serial(2, 1)

LastWriter == race.order[Len(race.order)][1]

\* C22: the store has no locking.  When two log_episodic (or update_profile)
\* calls both return without error, then if they did not interleave the
\* stored document holds both updates, and if their reads and writes
\* interleaved it holds only the update of the call that wrote last.
C22_LastWriteWins ==
    BothCompleted =>
        /\ Serial(1, 2) => Stored = Apply(Apply(race.doc0, 1), 2)
        /\ Serial(2, 1) => Stored = Apply(Apply(race.doc0, 2), 1)
        /\ Interleaved => Stored = Apply(race.doc0, LastWriter)

\* Both log_episodic calls returned without error and one entry is stored.
C22_Witness ==
    /\ BothCompleted
    /\ Interleaved
    /\ race.op = "log_episodic"
    /\ Len(episodic) = Len(race.doc0) + 1
    /\ episodic[Len(episodic)] = RaceEntry(LastWriter)


(***************************************************************************)
(* The tool providers (arc/mcp): one execute call                          *)
(***************************************************************************)

\* Bound: the longest path, in components, an execute call is given.
MaxPathLen == 3

\* An argument value that is not a str.
NonStr == "<NonStr>"

\* str(e) of the exceptions the providers catch.
AttributeErrorText == "'NoneType' object has no attribute 'get'"
TypeErrorText == "data must be str, not int"
OSErrorText == "[Errno 5] Input/output error"

NoResult == [status |-> "pending", data |-> None, error |-> None]

\* The uniform result of a provider call.
ErrorResult(msg) == [status |-> "error", data |-> None, error |-> msg]

SuccessResult(data) == [status |-> "success", data |-> data, error |-> None]

\* An exception with message msg leaves the method.
Raised(msg) == [status |-> "raised", data |-> None, error |-> msg]

Handled_reraise(done) == done

\* execute's handler: except Exception as e gives an error result of str(e).
Handled(done) ==
    [done EXCEPT !.result = IF @.status = "raised" THEN ErrorResult(@.error) ELSE @]

\* ---- FilesystemMCP ----

\* The working directory, a path being the sequence of its components from /.
Cwd == <<"arc">>

PathNames == {"..", "etc", "passwd", "notes.txt", "link"}

\* The directories and the symbolic links on disk: arc/link points to /etc.
Dirs == {<<>>, Cwd, <<"etc">>, Cwd \o <<"etc">>}

Links == [p \in {Cwd \o <<"link">>} |-> <<"etc">>]

\* config.allowed_roots, already resolved: the working directory by default.
RootSets == {{Cwd}, {Cwd \o <<"etc">>}}

\* The regular files on disk, with their text.
FileSets ==
    {(<<"etc", "passwd">> :> "root:x:0:0"),
     (<<"etc", "passwd">> :> "root:x:0:0") @@ (Cwd \o <<"notes.txt">> :> "milk")
        @@ (Cwd \o <<"etc", "passwd">> :> "")}

\* Path.resolve(): ".." steps up from the resolved path so far (and stays at
\* /), a symbolic link is replaced by what it points to.
RECURSIVE realpath(_, _)
realpath(acc, rest) ==
    IF rest = <<>> THEN acc
    ELSE LET name == Head(rest)
             next == Append(acc, name)
         IN  IF name = ".."
             THEN realpath(IF acc = <<>> THEN acc ELSE Front(acc), Tail(rest))
             ELSE IF next \in DOMAIN Links
             THEN realpath(Links[next], Tail(rest))
             ELSE realpath(next, Tail(rest))

\* A relative path is taken from the working directory.
resolve(path) == realpath(IF path.abs THEN <<>> ELSE Cwd, path.parts)

\* Path.parents: every proper ancestor, / included.
Parents(target) == {SubSeq(target, 1, k) : k \in 0..(Len(target) - 1)}

validate_path_unresolved(roots, path) ==
    IF path.given # "str" THEN [ok |-> FALSE, target |-> <<>>]
    ELSE LET joined == (IF path.abs THEN <<>> ELSE Cwd) \o path.parts
         IN  [ok |-> \E root \in roots : root \in Parents(joined) \/ root = joined,
              target |-> resolve(path)]

\* _validate_path: the resolved path when it is a root or below one, else
\* None (ok is FALSE); a path that is not a str makes Path() raise, which is
\* caught and gives None too.
validate_path(roots, path) ==
    IF path.given # "str" THEN [ok |-> FALSE, target |-> <<>>]
    ELSE LET target == resolve(path)
         IN  [ok |-> \E root \in roots : root \in Parents(target) \/ root = target,
              target |-> target]

\* Path.name
Name(target) == IF target = <<>> THEN "" ELSE target[Len(target)]

\* One file-system call made on a path.
IO(op, target) == [op |-> op, target |-> target]

\* What a provider method leaves: its result, the file-system calls it made
\* and the files on disk afterwards.
Done(result, io, files) == [result |-> result, io |-> io, files |-> files]

Children(files, dir) ==
    {p \in Dirs \cup DOMAIN files \cup DOMAIN Links :
        Len(p) = Len(dir) + 1 /\ SubSeq(p, 1, Len(dir)) = dir}

\* is_dir follows a link.
Item(p) == (IF p \in Dirs \/ p \in DOMAIN Links THEN "[DIR] " ELSE "[FILE] ") \o Name(p)

RECURSIVE JoinLines(_)
JoinLines(items) ==
    IF items = {} THEN ""
    ELSE LET x == CHOOSE x \in items : TRUE
             rest == items \ {x}
         IN  IF rest = {} THEN x ELSE x \o "\n" \o JoinLines(rest)

list_directory(roots, files, path, io) ==
    LET v == validate_path(roots, path)
        stat == <<IO("stat", v.target)>>
    IN  IF ~v.ok
        THEN Done(ErrorResult("Access denied: Path outside allowed roots."), <<>>, files)
        ELSE IF v.target \notin Dirs
        THEN Done(ErrorResult("Directory not found."), stat, files)
        ELSE Done(IF io = "ok"
                  THEN SuccessResult(JoinLines({Item(p) : p \in Children(files, v.target)}))
                  ELSE ErrorResult(OSErrorText),
                  Append(stat, IO("list", v.target)), files)

read_file(roots, files, path, io) ==
    LET v == validate_path(roots, path)
        stat == <<IO("stat", v.target)>>
    IN  IF ~v.ok
        THEN Done(ErrorResult("Access denied."), <<>>, files)
        ELSE IF v.target \notin DOMAIN files
        THEN Done(ErrorResult("File not found."), stat, files)
        ELSE Done(IF io = "ok" THEN SuccessResult(files[v.target])
                  ELSE ErrorResult(OSErrorText),
                  Append(stat, IO("read", v.target)), files)

\* write_text refuses a content that is not a str before it opens the file;
\* the file is created or replaced when its directory exists.
write_file(roots, files, path, content, io) ==
    LET v == validate_path(roots, path)
        target == v.target
        writable == /\ io = "ok"
                    /\ target \notin Dirs
                    /\ Front(target) \in Dirs
    IN  IF ~v.ok
        THEN Done(ErrorResult("Access denied."), <<>>, files)
        ELSE IF content = NonStr
        THEN Done(ErrorResult(TypeErrorText), <<>>, files)
        ELSE IF writable
        THEN Done(SuccessResult("Written " \o ToString(Len(content)) \o " chars to "
                                    \o Name(target)),
                  <<IO("write", target)>>,
                  [p \in DOMAIN files \cup {target} |->
                      IF p = target THEN content ELSE files[p]])
        ELSE Done(ErrorResult(OSErrorText), <<IO("write", target)>>, files)

create_file(roots, files, path, io) == write_file(roots, files, path, "", io)

delete_file(roots, files, path, io) ==
    LET v == validate_path(roots, path)
        target == v.target
        stat == <<IO("stat", target)>>
    IN  IF ~v.ok
        THEN Done(ErrorResult("Access denied."), <<>>, files)
        ELSE IF target \notin Dirs /\ target \notin DOMAIN files
        THEN Done(ErrorResult("File not found."), stat, files)
        ELSE IF io = "ok" /\ target \in DOMAIN files
        THEN Done(SuccessResult("Deleted " \o Name(target)),
                  Append(stat, IO("delete", target)),
                  [p \in DOMAIN files \ {target} |-> files[p]])
        ELSE Done(ErrorResult(OSErrorText), Append(stat, IO("delete", target)), files)

\* args.get("path", default): "." and "" both name the working directory.
PathArg(args) ==
    IF args.path.given = "missing" THEN [given |-> "str", abs |-> FALSE, parts |-> <<>>]
    ELSE args.path

\* args.get("content", "")
ContentArg(args) == IF args.content = Absent THEN "" ELSE args.content

\* The body of FilesystemMCP.execute: the tool name is matched first, and
\* args.get on a value that is no dict raises.
FilesystemMCP_dispatch(roots, files, tool_name, args, io) ==
    IF tool_name \notin {"list_directory", "list_files", "read_file", "write_file",
                         "create_file", "delete_file"}
    THEN Done(ErrorResult("Unknown tool: " \o tool_name), <<>>, files)
    ELSE IF ~args.dict
    THEN Done(Raised(AttributeErrorText), <<>>, files)
    ELSE IF tool_name \in {"list_directory", "list_files"}
    THEN list_directory(roots, files, PathArg(args), io)
    ELSE IF tool_name = "read_file"
    THEN read_file(roots, files, PathArg(args), io)
    ELSE IF tool_name = "write_file"
    THEN write_file(roots, files, PathArg(args), ContentArg(args), io)
    ELSE IF tool_name = "create_file"
    THEN create_file(roots, files, PathArg(args), io)
    ELSE delete_file(roots, files, PathArg(args), io)

FilesystemMCP_execute(roots, files, tool_name, args, io) ==
    Handled(FilesystemMCP_dispatch(roots, files, tool_name, args, io))

SeqsUpTo(S, n) == UNION {[1..k -> S] : k \in 0..n}

MissingPath == [given |-> "missing", abs |-> FALSE, parts |-> <<>>]

NonStrPath == [given |-> "nonstr", abs |-> FALSE, parts |-> <<>>]

FsPaths ==
    {[given |-> "str", abs |-> a, parts |-> p] :
        a \in BOOLEAN, p \in SeqsUpTo(PathNames, MaxPathLen)}

FsTools == {"list_directory", "list_files", "read_file", "write_file", "create_file",
            "delete_file", "open_url", None}

FsArgs ==
    {[dict |-> FALSE, path |-> MissingPath, content |-> Absent]}
    \cup {[dict |-> TRUE, path |-> p, content |-> c] :
            p \in FsPaths \cup {MissingPath, NonStrPath}, c \in {Absent, "hi", NonStr}}

FsCalls ==
    {[provider |-> "filesystem", at |-> "called", tool |-> t, args |-> a,
      roots |-> r, files0 |-> f, files |-> f, io |-> "pending", io_log |-> <<>>,
      result |-> NoResult] :
        t \in FsTools, a \in FsArgs, r \in RootSets, f \in FileSets}

FilesystemExecute ==
    /\ mcp.provider = "filesystem"
    /\ mcp.at = "called"
    /\ \E io \in {"ok", "error"} :
         LET r == FilesystemMCP_execute(mcp.roots, mcp.files, mcp.tool, mcp.args, io)
         IN  mcp' = [mcp EXCEPT !.at = "returned", !.io = io, !.result = r.result,
                                !.io_log = r.io, !.files = r.files]
    /\ UNCHANGED <<pc, state, trace, llm_reply, episodic, profile, torn, now, mem_io,
                   hist, race, voice>>


\* ---- BrowserMCP ----

WEB_APP_MAP ==
    [youtube |-> "https://www.youtube.com",
     google |-> "https://www.google.com",
     github |-> "https://github.com",
     chatgpt |-> "https://chatgpt.com",
     whatsapp |-> "https://web.whatsapp.com",
     spotify |-> "https://open.spotify.com",
     gmail |-> "https://mail.google.com",
     claude |-> "https://claude.ai"]

StrMethodErrorText == "'int' object has no attribute 'startswith'"
BrowserErrorText == "could not locate runnable browser"

\* What a browser method leaves: its result and the URLs it handed to
\* webbrowser.open_new_tab.
Browsed(result, handed) == [result |-> result, handed |-> handed]

\* not x, for the argument values drawn here
Falsy(x) == x \in {"", None}

\* open_new_tab returns (a tab opened, or no browser was found) or raises.
BrowserOutcomes == {"ok", "no_browser", "error"}

open_url(url, io) ==
    IF Falsy(url) THEN Browsed(ErrorResult("No URL provided"), <<>>)
    ELSE IF url = NonStr THEN Browsed(Raised(StrMethodErrorText), <<>>)
    ELSE LET target == IF StartsWith(url, "http") THEN url ELSE "https://" \o url
         IN  Browsed(IF io = "error" THEN ErrorResult(BrowserErrorText)
                     ELSE SuccessResult("Opened " \o target),
                     <<target>>)

\* str.replace(" ", "+")
RECURSIVE PlusForSpace(_)
PlusForSpace(s) ==
    IF Len(s) = 0 THEN ""
    ELSE (IF SubSeq(s, 1, 1) = " " THEN "+" ELSE SubSeq(s, 1, 1))
             \o PlusForSpace(SubSeq(s, 2, Len(s)))

\* query.replace on a value that is not a str raises inside search_web's own try.
search_web(query, io) ==
    IF Falsy(query) THEN Browsed(ErrorResult("No query provided"), <<>>)
    ELSE IF query = NonStr THEN Browsed(ErrorResult(StrMethodErrorText), <<>>)
    ELSE Browsed(IF io = "error" THEN ErrorResult(BrowserErrorText)
                 ELSE SuccessResult("Searched for '" \o query \o "'"),
                 <<"https://duckduckgo.com/?q=" \o PlusForSpace(query)>>)

open_web_app_search(name, io) ==
    IF Falsy(name) THEN Browsed(ErrorResult("No app name provided"), <<>>)
    ELSE IF name = NonStr THEN Browsed(Raised(StrMethodErrorText), <<>>)
    ELSE IF Lower(name) \notin DOMAIN WEB_APP_MAP
    THEN search_web(name, io)
    ELSE open_url(WEB_APP_MAP[Lower(name)], io)

open_web_app(name, io) ==
    IF Falsy(name) THEN Browsed(ErrorResult("No app name provided"), <<>>)
    ELSE IF name = NonStr THEN Browsed(Raised(StrMethodErrorText), <<>>)
    ELSE IF Lower(name) \notin DOMAIN WEB_APP_MAP
    THEN Browsed(ErrorResult("Unknown web app '" \o name \o "'. try search_web instead."),
                 <<>>)
    ELSE open_url(WEB_APP_MAP[Lower(name)], io)

\* args.get(key, ""), args holding at most one key
ArgOf(args, key) == IF args.key = key THEN args.value ELSE ""

BrowserMCP_dispatch(tool_name, args, io) ==
    IF tool_name \notin {"open_url", "search_web", "open_web_app"}
    THEN Browsed(ErrorResult("Unknown tool: " \o tool_name), <<>>)
    ELSE IF ~args.dict
    THEN Browsed(Raised(AttributeErrorText), <<>>)
    ELSE IF tool_name = "open_url" THEN open_url(ArgOf(args, "url"), io)
    ELSE IF tool_name = "search_web" THEN search_web(ArgOf(args, "query"), io)
    ELSE open_web_app(ArgOf(args, "name"), io)

BrowserMCP_execute(tool_name, args, io) == Handled(BrowserMCP_dispatch(tool_name, args, io))

BrowserTools == {"open_url", "search_web", "open_web_app", "read_file", None}

BrowserTexts ==
    {"", None, NonStr, "example.com", "http://example.com", "https://example.com/a b",
     "httpbin.org", "ftp://example.com", "youtube", "YouTube", "GITHUB", "netflix",
     " gmail", "tla plus"}

BrowserArgs ==
    {[dict |-> FALSE, key |-> Absent, value |-> ""]}
    \cup {[dict |-> TRUE, key |-> k, value |-> v] :
            k \in {"url", "query", "name"}, v \in BrowserTexts}
    \cup {[dict |-> TRUE, key |-> Absent, value |-> ""]}

BrowserCalls ==
    {[provider |-> "browser", at |-> "called", tool |-> t, args |-> a,
      io |-> "pending", handed |-> <<>>, result |-> NoResult] :
        t \in BrowserTools, a \in BrowserArgs}

BrowserExecute ==
    /\ mcp.provider = "browser"
    /\ mcp.at = "called"
    /\ \E io \in BrowserOutcomes :
         LET r == BrowserMCP_execute(mcp.tool, mcp.args, io)
         IN  mcp' = [mcp EXCEPT !.at = "returned", !.io = io, !.result = r.result,
                                !.handed = r.handed]
    /\ UNCHANGED <<pc, state, trace, llm_reply, episodic, profile, torn, now, mem_io,
                   hist, race, voice>>

\* One provider, about to be called with one tool name and one args value.
InitProviders ==
    /\ pc = "idle"
    /\ state = AgentState
    /\ trace = <<>>
    /\ llm_reply = NoReply
    /\ episodic = <<>>
    /\ profile = clear_profile
    /\ torn = {}
    /\ now = StartHour
    /\ mem_io = NoMemIO
    /\ hist = NoHist
    /\ race = NoRace
    /\ mcp \in FsCalls \cup BrowserCalls
    /\ voice = NoVoice

NextProviders == FilesystemExecute \/ BrowserExecute

SpecProviders == InitProviders /\ [][NextProviders]_vars


(***************************************************************************)
(* Claims about the tool providers                                         *)
(***************************************************************************)

IsPrefix(a, b) == Len(a) <= Len(b) /\ SubSeq(b, 1, Len(a)) = a

FsCommands == {"list_directory", "list_files", "read_file", "write_file", "create_file",
               "delete_file"}

FsReturned == mcp.provider = "filesystem" /\ mcp.at = "returned"

\* A file-system command was run on a path given as a str (or defaulted).
CommandOnPath ==
    /\ FsReturned
    /\ mcp.tool \in FsCommands
    /\ mcp.args.dict
    /\ PathArg(mcp.args).given = "str"

\* The path resolves to neither a root nor anything below one.
ResolvesOutside ==
    \A root \in mcp.roots : ~IsPrefix(root, resolve(PathArg(mcp.args)))

\* C23: every file-system command given a path that resolves outside all
\* allowed roots returns status error and makes no file-system call on the
\* target (no stat, read, write, listing or delete; the disk is as before);
\* every file-system call a command makes is on a root or below one.
C23_OutsideRootsReachNoIO ==
    /\ (CommandOnPath /\ ResolvesOutside) =>
          /\ mcp.result.status = "error"
          /\ mcp.io_log = <<>>
          /\ mcp.files = mcp.files0
    /\ FsReturned =>
          \A i \in 1..Len(mcp.io_log) :
             \E root \in mcp.roots : IsPrefix(root, mcp.io_log[i].target)

\* read_file on ../etc/passwd, the working directory being the only root and
\* /etc/passwd existing, was refused.
C23_Witness ==
    /\ FsReturned
    /\ mcp.tool = "read_file"
    /\ mcp.roots = {Cwd}
    /\ mcp.args.dict
    /\ mcp.args.path = [given |-> "str", abs |-> FALSE, parts |-> <<"..", "etc", "passwd">>]
    /\ <<"etc", "passwd">> \in DOMAIN mcp.files
    /\ mcp.result = ErrorResult("Access denied.")
    /\ mcp.io_log = <<>>


Returned == mcp.at = "returned"

\* C24: every provider execute call, whatever the tool name and the args
\* value, returns (nothing is raised out of it) a result whose status is
\* success or error; a success carries error None; an error carries data
\* None and a message that is not empty.
C24_ExecuteReturnsUniformShape ==
    Returned =>
       /\ mcp.result.status \in {"success", "error"}
       /\ mcp.result.status = "success" => mcp.result.error = None
       /\ mcp.result.status = "error" =>
             /\ mcp.result.data = None
             /\ mcp.result.error \notin {None, ""}

\* A method raised (open_url given a url that is no str) and execute still
\* returned an error result.
C24_Witness ==
    /\ Returned
    /\ mcp.provider = "browser"
    /\ mcp.tool = "open_url"
    /\ mcp.args.dict
    /\ mcp.args.key = "url"
    /\ mcp.args.value = NonStr
    /\ mcp.result = ErrorResult(StrMethodErrorText)
    /\ mcp.handed = <<>>


BrowserCalled(tool) ==
    /\ Returned
    /\ mcp.provider = "browser"
    /\ mcp.tool = tool
    /\ mcp.args.dict

NameArg == ArgOf(mcp.args, "name")

\* The name is a str found in the site-name table when case is ignored.
InTable(name) == name \notin {"", None, NonStr} /\ Lower(name) \in DOMAIN WEB_APP_MAP

\* C25: open_web_app hands the browser a URL only for a name that is in the
\* static site-name table when case is ignored, and then exactly the table's
\* URL for that name; for an empty or unknown name it returns status error
\* and hands the browser nothing.
C25_OpenWebAppOnlyFromTable ==
    BrowserCalled("open_web_app") =>
       IF InTable(NameArg)
       THEN mcp.handed = <<WEB_APP_MAP[Lower(NameArg)]>>
       ELSE mcp.result.status = "error" /\ mcp.handed = <<>>

\* "YouTube" opened the table's URL for youtube.
C25_Witness ==
    /\ BrowserCalled("open_web_app")
    /\ NameArg = "YouTube"
    /\ mcp.handed = <<"https://www.youtube.com">>
    /\ mcp.result = SuccessResult("Opened https://www.youtube.com")

UrlArg == ArgOf(mcp.args, "url")

HasScheme(url) == StartsWith(url, "http://") \/ StartsWith(url, "https://")

\* C26: for every non-empty url, open_url hands the browser a URL that begins
\* with "http://" or "https://": the url itself when it already begins so,
\* and "https://" followed by the url otherwise, host names that merely
\* start with "http" included.
C26_OpenUrlPrependsScheme ==
    (BrowserCalled("open_url") /\ UrlArg \notin {"", None, NonStr}) =>
       /\ Len(mcp.handed) = 1
       /\ HasScheme(mcp.handed[1])
       /\ mcp.handed[1] = IF HasScheme(UrlArg) THEN UrlArg ELSE "https://" \o UrlArg


(***************************************************************************)
(* The voice loop (arc/voice/loop.py) answered by agent_callback (cli.py)  *)
(***************************************************************************)

\* x in s, for two str
Contains(s, w) == \E i \in 1..(Len(s) - Len(w) + 1) : SubSeq(s, i, i + Len(w) - 1) = w

\* not s.strip()
IsBlank(s) == \A i \in 1..Len(s) : SubSeq(s, i, i) = " "

IsInterrupt(user_input) ==
    \E word \in {"stop", "cancel", "nevermind"} : Contains(Lower(user_input), word)

\* CommandRouter.detect_tool_command on the utterances drawn here: the tool
\* it names, None, or "raises" where it reaches re.search without having run
\* the import re that makes re a local name of the function.
Routed ==
    ("open Calculator" :> "open_app") @@ ("open the browser" :> "open_app")
    @@ ("please open youtube" :> "open_url") @@ ("visit https://example.com" :> "open_url")
    @@ ("open whatsapp on the web" :> "open_url")
    @@ ("list apps" :> "list_apps") @@ ("show running processes" :> "list_apps")
    @@ ("take a screenshot" :> "screenshot") @@ ("what time is it" :> "get_datetime")
    @@ ("is Safari running" :> "raises") @@ ("launch notes" :> "raises")
    @@ ("start timer" :> "raises")
    @@ ("hello" :> None) @@ ("tell me a joke" :> None)
    @@ ("stop" :> None) @@ ("Cancel that" :> None) @@ ("how do I stop a timer" :> None)
    @@ ("" :> None) @@ ("  " :> None)

Utterances == DOMAIN Routed

detect_tool_command(text) == Routed[text]

\* What the tools answer with.
ToolOutput ==
    [open_app |-> "Opened the app", open_url |-> "Opened the page in your default browser",
     list_apps |-> "You have 3 apps running. Top 10:", screenshot |-> "Screenshot saved",
     get_datetime |-> "Monday, 09:00"]

\* What a callback hands back: a str, a dict, or an exception.
Answer(type, text, tone) == [type |-> type, text |-> text, tone |-> tone]

NoAnswer == Answer("pending", "", Absent)

\* agent_callback: the router runs outside any try; a tool or backend that
\* fails is reported in the text of an ordinary str.
agent_callback(user_input, io) ==
    LET tool_cmd == detect_tool_command(user_input)
    IN  IF tool_cmd = "raises"
        THEN Answer("raised", "cannot access local variable 're'", Absent)
        ELSE IF tool_cmd # None
        THEN IF io = "error"
             THEN Answer("str", "Error executing tool: " \o OSErrorText, Absent)
             ELSE Answer("str", ToolOutput[tool_cmd], Absent)
        ELSE IF io = "error"
        THEN Answer("str", "AI Error: Connection refused\nMake sure Ollama is running.",
                    Absent)
        ELSE Answer("str", "Hello! How can I help?", Absent)

\* One call of _speak_async.
Speech(text, tone) == [text |-> text, tone |-> tone]

\* process_command: the text and tone it speaks for what the callback gave.
Response(result) ==
    IF result.type = "raised" THEN Speech("I encountered an error.", "apologetic")
    ELSE IF result.type = "str" THEN Speech(result.text, "friendly")
    ELSE Speech(result.text, Get(result.tone, "friendly"))

InitVoice ==
    /\ pc = "idle"
    /\ state = AgentState
    /\ trace = <<>>
    /\ llm_reply = NoReply
    /\ episodic = <<>>
    /\ profile = clear_profile
    /\ torn = {}
    /\ now = StartHour
    /\ mem_io = NoMemIO
    /\ hist = NoHist
    /\ race = NoRace
    /\ mcp = NoCall
    /\ \E u \in Utterances :
         voice = [at |-> "listening", user_input |-> u, io |-> "pending",
                  result |-> NoAnswer, spoken |-> <<>>]

\* Recording and transcription; a blank transcript ends the command, a
\* transcript with an interrupt word is answered "Okay".
Listen ==
    /\ voice.at = "listening"
    /\ \E heard \in {"ok", "recording_failed", "transcription_failed"} :
         voice' =
            IF heard = "recording_failed"
            THEN [voice EXCEPT !.at = "done",
                     !.spoken = <<Speech("Sorry, I couldn't hear you", "apologetic")>>]
            ELSE IF heard = "transcription_failed"
            THEN [voice EXCEPT !.at = "done",
                     !.spoken = <<Speech("Sorry, I didn't catch that", "apologetic")>>]
            ELSE IF IsBlank(voice.user_input)
            THEN [voice EXCEPT !.at = "done"]
            ELSE IF IsInterrupt(voice.user_input)
            THEN [voice EXCEPT !.at = "done", !.spoken = <<Speech("Okay", "neutral")>>]
            ELSE [voice EXCEPT !.at = "processing"]
    /\ UNCHANGED <<pc, state, trace, llm_reply, episodic, profile, torn, now, mem_io,
                   hist, race, mcp>>

\* await self.agent_callback(user_input); io is how the tool, or the backend
\* request, went when the callback made one.
AgentCallback ==
    /\ voice.at = "processing"
    /\ \E io \in {"ok", "error"} :
         LET result == agent_callback(voice.user_input, io)
         IN  voice' = [voice EXCEPT !.at = "answered", !.result = result,
                          !.io = IF result.type = "raised" THEN "pending" ELSE io]
    /\ UNCHANGED <<pc, state, trace, llm_reply, episodic, profile, torn, now, mem_io,
                   hist, race, mcp>>

Speak ==
    /\ voice.at = "answered"
    /\ voice' = [voice EXCEPT !.at = "spoken", !.spoken = <<Response(voice.result)>>]
    /\ UNCHANGED <<pc, state, trace, llm_reply, episodic, profile, torn, now, mem_io,
                   hist, race, mcp>>

NextVoice == Listen \/ AgentCallback \/ Speak

SpecVoice == InitVoice /\ [][NextVoice]_vars

\* The turn failed: the callback raised, or its tool or backend request did.
TurnFailed == voice.result.type = "raised" \/ voice.io = "error"

\* The turn was routed to a tool.
IntentTool == detect_tool_command(voice.user_input) \notin {None, "raises"}

\* C28: the tone handed to speech output for a turn is apologetic when the
\* turn failed over to its fallback reply, neutral when its intent was a tool
\* and it did not fail, and friendly otherwise.
C28_ToneDerivedFromTurn ==
    voice.at = "spoken" =>
       /\ Len(voice.spoken) = 1
       /\ voice.spoken[1].tone = IF TurnFailed THEN "apologetic"
                                 ELSE IF IntentTool THEN "neutral"
                                 ELSE "friendly"


\* The turn the Reasoning Engine decided as open_app on Calculator, with
\* confidence 0.9, has ended.
OpenCalculatorTurn ==
    /\ pc = "end"
    /\ state.intent = "tool"
    /\ state.confidence = Num(9)
    /\ state.tool_command = Cmd("open_app", CalcArgs)

\* C27: a turn decided as intent tool, confidence 0.9, tool_command open_app
\* with app_name Calculator is dispatched by the Tool Gateway, which returns
\* success; Recovery does not run; memory logs exactly one Episodic Entry,
\* with tool open_app and outcome success.
C27_OpenCalculatorSucceeds ==
    OpenCalculatorTurn =>
       /\ trace = <<"reasoning", "tools", "memory">>
       /\ ~Truthy(state.failure_reason)
       /\ Cardinality(NewEntries) = 1
       /\ LastEntry.tool = "open_app"
       /\ LastEntry.outcome = "success"


\* A store that holds a profile of any kind and one Episodic Entry.
InitStore ==
    /\ pc = "idle"
    /\ state = AgentState
    /\ trace = <<>>
    /\ llm_reply = NoReply
    /\ episodic = <<InitEntry(StartHour - 1)>>
    /\ \E facts \in InitFacts :
         /\ profile = [facts |-> facts, preferences |-> <<>>]
         /\ hist = [NoHist EXCEPT !.from_empty = (facts = <<>>)]
    /\ torn = {}
    /\ now = StartHour
    /\ mem_io = NoMemIO
    /\ race = NoRace
    /\ mcp = NoCall
    /\ voice = NoVoice

NextStore == UpdateProfile \/ ClearProfile \/ GetProfile

SpecStore == InitStore /\ [][NextStore]_vars

\* The stored profile decodes and holds no fact and no preference.
ProfileIsEmpty(doc, unreadable) ==
    /\ doc.facts = <<>>
    /\ doc.preferences = <<>>
    /\ "profile" \notin unreadable

StringFields == {"intent", "justification", "failure_reason", "recovery_attempt",
                 "memory_context", "tool_result", "final_response"}

RecordFields == {"confidence", "tool_command", "memory_decision"}

\* A node of this turn has written a value (not None) to the field.
HoldsValue(f) ==
    IF f \in StringFields THEN state[f] \notin {None, Absent}
    ELSE state[f].t \notin {"none", "absent"}

\* C30: on every path through the graph, a Turn State field that a node of
\* the turn has written a value to is not given a different value by a later
\* node: in particular the final_response written by reasoning is not
\* replaced by chat_responder or recovery, nor the failure_reason written by
\* reasoning by the Tool Gateway.
C30_NoConflictingWrites ==
    [][\A f \in StringFields \cup RecordFields :
          HoldsValue(f) => state'[f] = state[f]]_vars


\* C30 (amended): a field that holds a value is given a different one by a
\* later node in two cases only: chat_responder and recovery replace the
\* final_response that reasoning wrote, and recovery sets the recovery_attempt
\* that reasoning wrote as False to True; every other field, failure_reason
\* included, keeps the value first written to it.
C30_OnlyResponseAndRecoveryFlagRewritten ==
    [][\A f \in StringFields \cup RecordFields :
          (HoldsValue(f) /\ state'[f] # state[f]) =>
             \/ f = "final_response" /\ pc \in {"chat_responder", "recovery"}
             \/ /\ f = "recovery_attempt"
                /\ pc = "recovery"
                /\ state.recovery_attempt = PyFalse
                /\ state'.recovery_attempt = PyTrue]_vars

\* Reasoning wrote the backend's final_response "Hello!" and recovery put its
\* own reply in its place.
C30_Witness ==
    /\ pc = "end"
    /\ llm_reply.kind = "object"
    /\ llm_reply.decision.final_response = "Hello!"
    /\ trace = <<"reasoning", "recovery", "memory">>
    /\ state.final_response # "Hello!"
    /\ state.recovery_attempt = PyTrue


(***************************************************************************)
(* Further claims about the Memory Manager and the turn                    *)
(***************************************************************************)

\* C31: update_profile is all-or-nothing: a call that fails at any step (its
\* read, a stored last_used that does not parse, its write) leaves the stored
\* profile exactly as it was before the call, still decodable and with none
\* of the new facts applied.
C31_UpdateProfileAllOrNothing ==
    [][(CallStep("update_profile") /\ ~hist'.ok) =>
          /\ profile' = profile
          /\ torn' = torn]_vars


(***************************************************************************)
(* The Context Loader over longer histories: the turn stands at the        *)
(* context_loader node after a reasoning step that routed there, over a    *)
(* store of up to MaxContextEntries logged tool calls.                     *)
(***************************************************************************)
MaxContextEntries == 4

ContextEpisodics ==
    {[i \in 1..n |-> InitEntry(StartHour - 1 - n + i)] : n \in 0..MaxContextEntries}

InitContext ==
    /\ pc = "context_loader"
    /\ trace = <<"reasoning">>
    /\ llm_reply \in {r \in Replies : r.kind = "object" /\ r.decision.final_response = Absent}
    /\ state = Merge(AgentState, reasoning_engine(llm_reply))
    /\ route_reasoning(state) = "context_loader"
    /\ episodic \in ContextEpisodics
    /\ profile \in [facts : InitFacts, preferences : {<<>>}]
    /\ torn = {}
    /\ now = StartHour
    /\ mem_io = [NoMemIO EXCEPT !.requests = <<"reasoning">>]
    /\ hist = NoHist
    /\ race = NoRace
    /\ mcp = NoCall
    /\ voice = NoVoice

SpecContext == InitContext /\ [][ContextLoader]_vars

\* The context_loader node runs in this step.
ContextLoaded == pc = "context_loader" /\ pc' # pc

NoMemorySentinel == "No relevant memory found."

\* The line the recent-activity section holds for one stored entry.
HistoryLine(e) == HistoryLines(<<e>>)[1]

\* Where w first starts in s, 0 when it does not occur.
Position(s, w) ==
    IF ~Contains(s, w) THEN 0
    ELSE CHOOSE i \in 1..Len(s) :
           /\ SubSeq(s, i, i + Len(w) - 1) = w
           /\ \A j \in 1..(i - 1) : SubSeq(s, j, j + Len(w) - 1) # w

\* The memory_context the step leaves is the block the specification
\* describes for the store the step found.
ContextBlockDescribesStore ==
    LET ctx == state'.memory_context
        n == Len(episodic)
        listed == {i \in 1..n : Contains(ctx, HistoryLine(episodic[i]))}
    IN  /\ (ctx = NoMemorySentinel) <=> (profile.facts = <<>> /\ episodic = <<>>)
        /\ Contains(ctx, "USER PROFILE:") <=> (profile.facts # <<>>)
        /\ \A i \in 1..Len(profile.facts) :
             Contains(ctx, "- " \o profile.facts[i].text)
        /\ Contains(ctx, "RECENT ACTIVITY:") <=> (episodic # <<>>)
        /\ listed = {i \in 1..n : i > n - ContextLimit}
        /\ \A i, j \in listed :
             i < j => Position(ctx, HistoryLine(episodic[i]))
                        < Position(ctx, HistoryLine(episodic[j]))

\* The step writes memory_context and nothing else, in the Turn State or in
\* the Memory Store.
ContextLoaderFrame ==
    /\ DOMAIN state' = DOMAIN state
    /\ \A f \in DOMAIN state \ {"memory_context"} : state'[f] = state[f]
    /\ episodic' = episodic
    /\ profile' = profile
    /\ torn' = torn

ChatFallback == "I tried to remember, but something went wrong."

\* The chat_responder node runs in this step.
ChatResponded == pc = "chat_responder" /\ pc' # pc

\* C33: when the Chat Responder's backend request fails, final_response is
\* the fixed fallback string, failure_reason stays unset, and the turn goes on
\* to memory without entering recovery; when the request succeeds
\* final_response is the backend's content, whatever draft final_response
\* reasoning left.
C33_ChatResponderFallback ==
    [][ChatResponded =>
         /\ pc' = "memory"
         /\ ~Truthy(state.failure_reason)
         /\ state'.failure_reason = state.failure_reason
         /\ state'.recovery_attempt = state.recovery_attempt
         /\ state'.final_response = IF mem_io'.chat.ok THEN mem_io'.chat.content
                                    ELSE ChatFallback]_vars

\* A failed request of the Chat Responder over a draft that reasoning left:
\* the turn is at memory with the fallback and has not been in recovery.
C33_Witness ==
    /\ pc = "memory"
    /\ trace = <<"reasoning", "context_loader", "chat_responder">>
    /\ llm_reply.kind = "object"
    /\ llm_reply.decision.final_response = "Hello!"
    /\ ~mem_io.chat.ok
    /\ state.final_response = ChatFallback
    /\ state.failure_reason = None


\* This step is a non-empty update_profile that completed on a profile
\* holding plain-string facts.
MigratingUpdate ==
    /\ CallStep("update_profile")
    /\ hist'.ok
    /\ hist'.new_facts # <<>>
    /\ LegacyAt(profile) # {}

\* After the step every stored fact is a structured record, and every fact
\* that was a plain string is stored under its text, used now, with the
\* strength that strength_of gives for the number of its mentions in the call.
MigratedWith(strength_of(_)) ==
    /\ \A j \in 1..Len(profile'.facts) : profile'.facts[j].kind # "legacy"
    /\ \A i \in LegacyAt(profile) :
         \E j \in 1..Len(profile'.facts) :
             /\ profile'.facts[j].text = profile.facts[i].text
             /\ profile'.facts[j].last_used = now
             /\ profile'.facts[j].strength
                  = strength_of(Mentions(hist'.new_facts, profile.facts[i].text))

\* A get_profile that completes returns the stored texts in stored order,
\* whether a fact is a plain string or a structured record.
GetProfileReturnsTexts ==
    (CallStep("get_profile") /\ hist'.ok) =>
        /\ Len(hist'.new_facts) = Len(profile.facts)
        /\ \A i \in 1..Len(profile.facts) : hist'.new_facts[i] = profile.facts[i].text

OneOrTwo(mentions) == IF mentions > 0 THEN 2 ELSE 1

OnePerMention(mentions) == Min(1 + mentions, MaxStrength)

\* C34 as stated: after a successful non-empty update_profile on a profile
\* with plain-string facts every stored fact is a structured record, and each
\* such fact keeps its text, survives the decay of the call and has strength 1,
\* or strength 2 when the call mentions it; get_profile returns the same
\* texts for plain-string and structured facts.
C34_MigratedStrengthOneOrTwo ==
    [][/\ MigratingUpdate => MigratedWith(OneOrTwo)
       /\ GetProfileReturnsTexts]_vars

\* C34: after a successful non-empty update_profile on a profile with
\* plain-string facts every stored fact is a structured record, and each such
\* fact keeps its text, survives the decay of the call and has strength 1
\* plus one for every mention of it in the call, ignoring case, up to the cap
\* of 5; get_profile returns the same texts for plain-string and structured
\* facts.
C34_MigrationOnFirstTouch ==
    [][/\ MigratingUpdate => MigratedWith(OnePerMention)
       /\ GetProfileReturnsTexts]_vars

\* A plain-string fact was migrated by a call that mentions it three times.
C34_Witness ==
    /\ hist.op = "update_profile"
    /\ hist.ok
    /\ hist.migrated = 1
    /\ Mentions(hist.new_facts, Coffee) = 3
    /\ profile.facts = <<Fact(Coffee, now, 4)>>


\* How many times a node occurs in a sequence of node names.
Runs(nodes, node) == Cardinality({i \in 1..Len(nodes) : nodes[i] = node})

\* The nodes that send a request to the LLM backend.
BackendNodes == {"reasoning", "chat_responder", "recovery"}

\* C35: within one turn every node runs at most once, recovery included, and
\* the LLM backend receives at most two requests: one from reasoning, sent
\* once reasoning has run, and at most one more, from chat_responder or from
\* recovery and never from both.
C35_AtMostTwoBackendRequests ==
    /\ \A i, j \in 1..Len(trace) : i # j => trace[i] # trace[j]
    /\ Runs(trace, "recovery") <= 1
    /\ Len(mem_io.requests) <= 2
    /\ \A node \in BackendNodes : Runs(mem_io.requests, node) = Runs(trace, node)
    /\ \A k \in 1..Len(mem_io.requests) : mem_io.requests[k] \in BackendNodes
    /\ trace # <<>> => Runs(mem_io.requests, "reasoning") = 1
    /\ Runs(mem_io.requests, "chat_responder") + Runs(mem_io.requests, "recovery") <= 1

\* A finished turn whose tool failed: reasoning and recovery each sent one
\* request.
C35_Witness ==
    /\ pc = "end"
    /\ trace = <<"reasoning", "tools", "recovery", "memory">>
    /\ mem_io.requests = <<"reasoning", "recovery">>


\* The stored profile, or whether it decodes, changes in this step.
ProfileWritten == profile' # profile \/ ("profile" \in torn') # ("profile" \in torn)

\* C36: within a turn the stored profile changes only in the step of the
\* memory node, and only when the memory_decision of the turn has long_term
\* set and a non-empty user_fact; every other step of every turn, the turns
\* whose reasoning crashed included, leaves the stored profile as it was.
C36_ProfileWrittenOnlyByMemoryNode ==
    [][ProfileWritten =>
         /\ pc = "memory"
         /\ state.memory_decision.t = "dict"
         /\ state.memory_decision.long_term
         /\ state.memory_decision.user_fact # <<>>]_vars

\* The memory node stored the fact of a long_term decision.
C36_Witness ==
    /\ pc = "end"
    /\ state.memory_decision.long_term
    /\ state.memory_decision.user_fact # <<>>
    /\ mem_io.mgr_ok /\ mem_io.io_p = "ok"
    /\ \E i \in 1..Len(profile.facts) :
         /\ Lower(profile.facts[i].text) = Lower(state.memory_decision.user_fact[1])
         /\ profile.facts[i].last_used = now


\* The turn was routed from reasoning to recovery, which route_reasoning does
\* for a confidence below the threshold, and now stands at the memory node.
LowConfidenceTurnAtMemory ==
    /\ pc = "memory"
    /\ trace = <<"reasoning", "recovery">>

\* C37: a turn routed to recovery because its confidence is below 0.5 makes
\* no change to the Memory Store: its memory step writes no user fact and
\* appends no episodic entry, whatever memory_decision and intent the decision
\* carried.
C37_LowConfidenceTurnWritesNothing ==
    [][LowConfidenceTurnAtMemory =>
         /\ episodic' = episodic
         /\ profile' = profile
         /\ torn' = torn]_vars


(***************************************************************************)
(* Both documents of the store under every call of the Memory Manager that *)
(* reads or changes one of them, the profile carrying preferences.         *)
(***************************************************************************)
\* A preferences map with one key, as a profile file can hold it.
SomePreferences == <<[key |-> "theme", value |-> "dark"]>>

InitFrame ==
    /\ pc = "idle"
    /\ state = AgentState
    /\ trace = <<>>
    /\ llm_reply = NoReply
    /\ episodic \in InitEpisodics
    /\ \E facts \in {<<>>, <<LegacyFact("Likes coffee")>>} :
         /\ profile \in [facts : {facts}, preferences : {<<>>, SomePreferences}]
         /\ hist = [NoHist EXCEPT !.from_empty = (facts = <<>>)]
    /\ torn = {}
    /\ now = StartHour
    /\ mem_io = NoMemIO
    /\ race = NoRace
    /\ mcp = NoCall
    /\ voice = NoVoice

NextFrame ==
    \/ UpdateProfile
    \/ GetProfile
    \/ LogEpisodic
    \/ DeleteLastEpisodic
    \/ GetRecentEpisodic

SpecFrame == InitFrame /\ [][NextFrame]_vars

\* The episodic document is as it was: its entries and whether it decodes.
EpisodicUntouched == episodic' = episodic /\ ("episodic" \in torn') = ("episodic" \in torn)

\* The profile document is as it was: its content and whether it decodes.
ProfileUntouched == profile' = profile /\ ("profile" \in torn') = ("profile" \in torn)

\* C38: a successful update_profile changes only the facts: the preferences
\* are identical and the episodic list is unchanged; log_episodic and
\* delete_last_episodic never change the profile; get_profile and
\* get_recent_episodic change neither document.
C38_CallsKeepToTheirDocument ==
    [][/\ (CallStep("update_profile") /\ hist'.ok) =>
             (profile'.preferences = profile.preferences /\ EpisodicUntouched)
       /\ (CallStep("log_episodic") \/ CallStep("delete_last_episodic")) => ProfileUntouched
       /\ (CallStep("get_profile") \/ CallStep("get_recent_episodic")) =>
             (ProfileUntouched /\ EpisodicUntouched)]_vars

\* An update_profile stored a fact in a profile that carries preferences,
\* beside a stored episodic entry.
C38_Witness ==
    /\ hist.op = "update_profile"
    /\ hist.ok
    /\ hist.new_facts # <<>>
    /\ profile.preferences = SomePreferences
    /\ \E i \in 1..Len(profile.facts) : profile.facts[i].last_used = now
    /\ episodic # <<>>


\* The call before this step was a log_episodic that stored its entry.
AfterLog == hist.op = "log_episodic" /\ hist.ok

MaxManagerCalls == 3

\* config.mcp.servers in the order of the mapping.
ServerOrder == <<"browser", "git", "python">>

Servers == {ServerOrder[i] : i \in 1..Len(ServerOrder)}

\* The servers with enabled = True: the defaults, or with python switched on.
EnabledSets == {{"browser", "git"}, {"browser", "git", "python"}}

\* How one connect_server goes: everything works, stdio_client cannot spawn
\* the server, session.initialize() fails, or session.list_tools() fails.
ConnectOutcomes == {"ok", "spawn_error", "initialize_error", "list_tools_error"}

NoMap == [n \in {} |-> ""]

Put(map, name, value) ==
    [n \in DOMAIN map \cup {name} |-> IF n = name THEN value ELSE map[n]]

\* tools_result.tools of a server.
ToolsOf(name) == name \o "_tools"

\* connect_server: the maps after the call and whether it raised.
connect_server(m, name, outcome) ==
    [sessions |-> IF outcome \in {"ok", "list_tools_error"}
                  THEN Put(m.sessions, name, "ClientSession") ELSE m.sessions,
     tool_cache |-> IF outcome = "ok" THEN Put(m.tool_cache, name, ToolsOf(name))
                    ELSE m.tool_cache,
     raised |-> outcome # "ok"]

\* start: connect_server for every enabled server in turn, each failure
\* logged and passed over; attempted collects the servers it called
\* connect_server for.
RECURSIVE start(_, _, _, _)
start(m, names, enabled, outcomes) ==
    IF names = <<>> THEN m
    ELSE LET name == Head(names)
             c == connect_server(m, name, outcomes[name])
             after == IF name \in enabled
                      THEN [sessions |-> c.sessions, tool_cache |-> c.tool_cache,
                            attempted |-> m.attempted \cup {name}]
                      ELSE m
         IN  start(after, Tail(names), enabled, outcomes)

\* stop: exit_stack.aclose(), then both maps are cleared; an exception from
\* aclose leaves stop before the maps are cleared.
stop(m, outcome) ==
    IF outcome = "ok" THEN [sessions |-> NoMap, tool_cache |-> NoMap, raised |-> FALSE]
    ELSE [sessions |-> m.sessions, tool_cache |-> m.tool_cache, raised |-> TRUE]

InitManager ==
    /\ pc = "idle"
    /\ state = AgentState
    /\ trace = <<>>
    /\ llm_reply = NoReply
    /\ episodic = <<>>
    /\ profile = clear_profile
    /\ torn = {}
    /\ now = StartHour
    /\ mem_io = NoMemIO
    /\ hist = NoHist
    /\ race = NoRace
    /\ \E enabled \in EnabledSets :
         mcp = [sessions |-> NoMap, tool_cache |-> NoMap, enabled |-> enabled,
                calls |-> 0, op |-> "none", raised |-> FALSE, attempted |-> {}]
    /\ voice = NoVoice

ManagerStart ==
    /\ mcp.calls < MaxManagerCalls
    /\ \E outcomes \in [Servers -> ConnectOutcomes] :
         LET m == start([sessions |-> mcp.sessions, tool_cache |-> mcp.tool_cache,
                         attempted |-> {}],
                        ServerOrder, mcp.enabled, outcomes)
         IN  mcp' = [mcp EXCEPT !.sessions = m.sessions, !.tool_cache = m.tool_cache,
                                !.calls = @ + 1, !.op = "start", !.raised = FALSE,
                                !.attempted = m.attempted]
    /\ UNCHANGED <<pc, state, trace, llm_reply, episodic, profile, torn, now, mem_io, hist,
                   race, voice>>

ManagerConnectServer ==
    /\ mcp.calls < MaxManagerCalls
    /\ \E name \in Servers, outcome \in ConnectOutcomes :
         LET c == connect_server(mcp, name, outcome)
         IN  mcp' = [mcp EXCEPT !.sessions = c.sessions, !.tool_cache = c.tool_cache,
                                !.calls = @ + 1, !.op = "connect_server",
                                !.raised = c.raised, !.attempted = {name}]
    /\ UNCHANGED <<pc, state, trace, llm_reply, episodic, profile, torn, now, mem_io, hist,
                   race, voice>>

ManagerStop ==
    /\ mcp.calls < MaxManagerCalls
    /\ \E outcome \in {"ok", "aclose_error"} :
         LET s == stop(mcp, outcome)
         IN  mcp' = [mcp EXCEPT !.sessions = s.sessions, !.tool_cache = s.tool_cache,
                                !.calls = @ + 1, !.op = "stop", !.raised = s.raised,
                                !.attempted = {}]
    /\ UNCHANGED <<pc, state, trace, llm_reply, episodic, profile, torn, now, mem_io, hist,
                   race, voice>>

NextManager == ManagerStart \/ ManagerConnectServer \/ ManagerStop

SpecManager == InitManager /\ [][NextManager]_vars

\* C40: after any sequence of start, connect_server and stop calls, failing
\* connect_server calls included, the server names in sessions are the server
\* names in the tool cache; a start has tried every enabled server whatever
\* failed before it; after stop both maps are empty.
C40_SessionsMatchToolCache ==
    /\ DOMAIN mcp.sessions = DOMAIN mcp.tool_cache
    /\ mcp.op = "start" => mcp.attempted = mcp.enabled
    /\ mcp.op = "stop" => (mcp.sessions = NoMap /\ mcp.tool_cache = NoMap)

=============================================================================
